---- MODULE Spec2Model ----
(***************************************************************************)
(* HPSDR UDP proxy: the datagram dispatcher (main.py), the session table   *)
(* (core/session_manager.py), the forwarder (core/forwarder.py), the       *)
(* packet classifier (core/packet_handler.py) and the listener             *)
(* (core/udp_listener.py).                                                 *)
(*                                                                         *)
(* Time is an integer clock (datetime.utcnow()).  A session object is      *)
(* identified by its database id, which is its index in objs.  A handler   *)
(* runs without suspension unless it awaits real I/O: the database hooks    *)
(* and asyncio.sleep are the only suspension points that are modelled as   *)
(* separate steps.                                                         *)
(***************************************************************************)
EXTENDS Integers, Sequences, FiniteSets, TLC

\* ------------------------------------------------------------------ bounds
MaxTime == 2
MaxSessions == 2
MaxDatagrams == 2
MaxTtl == 2
DispatchTtl == 1
SessionTimeout == 1
MaxReaped == 2
MaxReaperTime == 3
MaxLen == 15
MaxParses == 2
MaxResets == 1
MaxSignals == 2
MaxLoginAttempts == 2
LockoutDuration == 1
MaxAuthCalls == 4
SyncThreshold == 1

\* --------------------------------------------------------------- sentinels
NoId == 0
NoAddr == <<"", 0>>

\* ------------------------------------------------------------ the universe
ClientAddrs == {<<"192.168.1.20", 50000>>, <<"192.168.1.21", 50000>>}
RadioSrcAddrs == {<<"10.0.0.5", 1024>>, <<"10.0.0.5", 1025>>}
Tokens == {"t1", "t2"}
ValTasks == {1, 2}

\* RadioConfig records of the enabled radios, in configuration order.
\* data_port = 0 stands for "data_port not configured" (None).
RadioA == [name |-> "hl2", ip |-> "radio1.local", port |-> 1024, data_port |-> 1025]
RadioB == [name |-> "spare", ip |-> "10.0.0.6", port |-> 1024, data_port |-> 0]
RadioConfig == <<RadioA, RadioB>>

\* socket.gethostbyname: a name the resolver knows maps to its address, a
\* dotted address maps to itself.
DnsTable == [h \in {"radio1.local", "10.0.0.6"} |->
               IF h = "radio1.local" THEN "10.0.0.5" ELSE h]

\* Datagram payloads (byte strings).
DiscoveryReq == <<239, 254, 2, 0, 0, 0, 0, 0, 0>>
SetIpPkt == <<239, 254, 4, 1, 10, 0, 0, 5>>
DataPkt == <<239, 254, 1, 0, 0, 0, 1, 0>>
UnknownPkt == <<0, 0, 0, 0>>
\* A discovery response: MAC 00:1c:c0:a2:22:5d, board id 6, radio IP 10.0.0.5.
DiscoveryResp == <<239, 254, 2, 0, 28, 192, 162, 34, 93, 6, 10, 0, 0, 5>>
\* config.proxy.listen_address "0.0.0.0", which the rewrite turns into 127.0.0.1.
ProxyIpBytes == <<127, 0, 0, 1>>
Payloads == {DiscoveryReq, SetIpPkt, DataPkt, UnknownPkt}

\* ------------------------------------------------------- Python dict (ordered)
\* A dict is a sequence of <<key, value>> pairs in insertion order.
DictHas(d, k) == \E i \in 1..Len(d) : d[i][1] = k

DictGet(d, k, default) ==
  IF DictHas(d, k) THEN d[CHOOSE i \in 1..Len(d) : d[i][1] = k][2] ELSE default

DictSet(d, k, v) ==
  IF DictHas(d, k)
    THEN [i \in 1..Len(d) |-> IF d[i][1] = k THEN <<k, v>> ELSE d[i]]
    ELSE Append(d, <<k, v>>)

DictPop(d, k) == SelectSeq(d, LAMBDA e : e[1] # k)

DictKeys(d) == {d[i][1] : i \in 1..Len(d)}

DictValues(d) == {d[i][2] : i \in 1..Len(d)}

VARIABLES
  now,                 \* datetime.utcnow()
  allow_anonymous,     \* HPSDRProxy._allow_anonymous
  radios,              \* enabled RadioConfig list of the configuration
  objs,                \* ActiveSession objects, objs[id]
  sessions_by_client,  \* SessionManager.sessions_by_client: addr -> id
  sessions_by_token,   \* SessionManager.sessions_by_token: token -> id
  sessions_by_id,      \* SessionManager.sessions_by_id: the ids it holds
  sm_stats,            \* SessionManager.stats
  fwd_stats,           \* PacketForwarder.stats
  session_stats,       \* PacketForwarder.session_stats
  ph_stats,            \* PacketHandler.stats
  listener_stats,      \* UDPListener.stats
  sent,                \* datagrams handed to transport.sendto, in order
  vtask,               \* validate_client(token) calls in progress
  ttask,               \* terminate_session call of an external caller
  reaper,              \* the _cleanup_loop task
  terminated,          \* ids whose terminate_session call has completed
  last_assign,         \* radio endpoint -> client of the latest assign_radio
  last_dispatch,       \* what _handle_client_packet did with the last datagram
  ready,               \* the event loop's queue of _process_packet tasks
  flusher,             \* the _stats_collection_loop task
  last_parse,          \* the last direct PacketHandler call and its result
  resets,              \* reset_statistics calls made so far
  proxy,               \* HPSDRProxy.run: where it is, and what is started
  auth,                \* the users row of the database, and AuthManager's calls
  activity_syncs       \* the db.update_session_activity calls made: session, time

vars == <<now, allow_anonymous, radios, objs, sessions_by_client,
          sessions_by_token, sessions_by_id, sm_stats, fwd_stats,
          session_stats, ph_stats, listener_stats, sent, vtask, ttask,
          reaper, terminated, last_assign, last_dispatch, ready, flusher,
          last_parse, resets, proxy, auth, activity_syncs>>


\* ------------------------------------------------------- packet classifier
IsSetIpPacket(data) ==
  IF Len(data) < 3 THEN FALSE
  ELSE data[1] = 239 /\ data[2] = 254 /\ data[3] = 4

IsDiscoveryPacket(data) ==
  IF Len(data) < 3 THEN FALSE
  ELSE data[1] = 239 /\ data[2] = 254 /\ data[3] = 2

\* Mutant: Protocol 1 data recognised from its three-byte prefix alone.
IsProtocol1DataShort(data) ==
  IF Len(data) < 3 THEN FALSE
  ELSE data[1] = 239 /\ data[2] = 254 /\ data[3] = 1

IsProtocol1Data(data) ==
  IF Len(data) < 8 THEN FALSE
  ELSE data[1] = 239 /\ data[2] = 254 /\ data[3] = 1

\* PacketHandler.parse: the packet type it returns.
PacketType(data) ==
  IF IsSetIpPacket(data) THEN "SET_IP"
  ELSE IF IsDiscoveryPacket(data) THEN "DISCOVERY"
  ELSE IF IsProtocol1Data(data) THEN "DATA"
  ELSE "UNKNOWN"

\* ---------------------------------------------------------- packet fields
\* Text is a sequence of one-character strings; None is the empty sequence.
None == <<>>

\* An absent integer field (None).
NoByte == 0 - 1

HexDigits == <<"0", "1", "2", "3", "4", "5", "6", "7", "8", "9",
               "a", "b", "c", "d", "e", "f">>

HexDigitsUpper == <<"0", "1", "2", "3", "4", "5", "6", "7", "8", "9",
                    "A", "B", "C", "D", "E", "F">>

\* Mutant: f'{b:02x}' without the zero padding.
Hex02xUnpadded(b) ==
  IF b < 16 THEN <<HexDigits[b + 1]>>
  ELSE <<HexDigits[(b \div 16) + 1], HexDigits[(b % 16) + 1]>>

\* f'{b:02x}'
Hex02x(b) == <<HexDigits[(b \div 16) + 1], HexDigits[(b % 16) + 1]>>

\* str(b) for a byte.
Str(b) ==
  IF b < 10 THEN <<HexDigits[b + 1]>>
  ELSE IF b < 100 THEN <<HexDigits[(b \div 10) + 1], HexDigits[(b % 10) + 1]>>
  ELSE <<HexDigits[(b \div 100) + 1], HexDigits[((b \div 10) % 10) + 1],
         HexDigits[(b % 10) + 1]>>

\* sep.join(parts)
RECURSIVE Join(_, _)
Join(parts, sep) ==
  IF parts = <<>> THEN <<>>
  ELSE IF Len(parts) = 1 THEN parts[1]
  ELSE parts[1] \o <<sep>> \o Join(Tail(parts), sep)

\* data[lo:hi] of Python, on a 1-based sequence.
Slice(data, lo, hi) ==
  LET h == IF hi > Len(data) THEN Len(data) ELSE hi
  IN IF lo >= h THEN <<>> ELSE SubSeq(data, lo + 1, h)

\* The HPSDRPacket a parse returns, fields at their defaults.
HPSDRPacket(packet_type) ==
  [packet_type |-> packet_type, is_response |-> FALSE, mac_address |-> None,
   board_id |-> NoByte, firmware_version |-> None, sequence_number |-> NoByte,
   target_ip |-> None, command_bytes |-> None, metadata |-> <<>>,
   raised |-> FALSE]

ParseDiscovery(data) ==
  LET packet == HPSDRPacket("DISCOVERY")
      mac_bytes == Slice(data, 3, 9)
      fw_bytes == SelectSeq(Slice(data, 10, 15), LAMBDA b : b # 0)
  IN IF Len(data) >= 9 /\ \E i \in 1..Len(mac_bytes) : mac_bytes[i] # 0
       THEN [packet EXCEPT
               !.is_response = TRUE,
               !.mac_address = Join([i \in 1..Len(mac_bytes) |-> Hex02x(mac_bytes[i])], ":"),
               !.board_id = IF Len(data) >= 10 THEN data[10] ELSE NoByte,
               !.firmware_version =
                  IF Len(data) >= 15
                    THEN Join([i \in 1..Len(fw_bytes) |-> Str(fw_bytes[i])], ".")
                    ELSE None]
       ELSE packet

ParseSetIp(data) ==
  LET packet == HPSDRPacket("SET_IP")
      ip_bytes == Slice(data, 4, 8)
  IN IF Len(data) >= 8
       THEN [packet EXCEPT !.target_ip = Join([i \in 1..4 |-> Str(ip_bytes[i])], ".")]
       ELSE packet

\* struct.unpack('>I', data[3:7])
\* The length from which _parse_protocol1_data reads the USB frames.
Protocol1Size == 1032

\* bool(byte & mask) for a mask of one bit.
BitSet(byte, mask) == (byte \div mask) % 2 = 1

ParseProtocol1Data(data) ==
  LET packet == [HPSDRPacket("DATA") EXCEPT
                   !.sequence_number =
                      IF Len(data) >= 7
                        THEN ((data[4] * 256 + data[5]) * 256 + data[6]) * 256 + data[7]
                        ELSE NoByte]
  IN IF Len(data) >= Protocol1Size /\ Len(data) >= 16
       THEN [packet EXCEPT
               !.command_bytes = Slice(data, 11, 16),
               !.metadata = <<<<"ptt", BitSet(data[12], 1)>>,
                              <<"freq_change", BitSet(data[12], 2)>>>>]
       ELSE packet

\* PacketHandler.parse: the packet it returns.
ParsePacket(data) ==
  IF IsSetIpPacket(data) THEN ParseSetIp(data)
  ELSE IF IsDiscoveryPacket(data) THEN ParseDiscovery(data)
  ELSE IF IsProtocol1Data(data) THEN ParseProtocol1Data(data)
  ELSE HPSDRPacket("UNKNOWN")

\* PacketHandler.extract_frequency, NoByte for None.  The product
\* freq_word * 122.88e6 = freq_word * 1875 * 2^16 is exact in a double (the
\* odd part is below 2^43) and so is the division by 2^32; int() drops the
\* fraction.  freq_word is taken as its two 16-bit halves:
\* floor((hi * 2^16 + lo) * 1875 / 2^16) = hi * 1875 + floor(lo * 1875 / 2^16).
ExtractFrequency(packet) ==
  IF packet.packet_type # "DATA" THEN NoByte
  ELSE IF Len(packet.command_bytes) < 5 THEN NoByte
  ELSE LET c == packet.command_bytes
       IN (c[2] * 256 + c[3]) * 1875 + ((c[4] * 256 + c[5]) * 1875) \div 65536

\* The value of one hexadecimal digit, either case, as bytes.fromhex reads it.
HexVal(c) ==
  IF \E i \in 1..16 : HexDigits[i] = c
    THEN (CHOOSE i \in 1..16 : HexDigits[i] = c) - 1
    ELSE (CHOOSE i \in 1..16 : HexDigitsUpper[i] = c) - 1

\* bytes.fromhex(text), for text made of pairs of hexadecimal digits.
FromHex(text) ==
  [i \in 1..(Len(text) \div 2) |-> HexVal(text[2 * i - 1]) * 16 + HexVal(text[2 * i])]

\* text.split(sep)
RECURSIVE Split(_, _)
Split(text, sep) ==
  IF \A i \in 1..Len(text) : text[i] # sep THEN <<text>>
  ELSE LET k == CHOOSE i \in 1..Len(text) :
                  text[i] = sep /\ \A j \in 1..(i - 1) : text[j] # sep
       IN <<SubSeq(text, 1, k - 1)>> \o Split(SubSeq(text, k + 1, Len(text)), sep)

\* int(part), for a part made of decimal digits.
RECURSIVE IntOf(_)
IntOf(part) ==
  IF Len(part) = 1 THEN HexVal(part[1])
  ELSE IntOf(SubSeq(part, 1, Len(part) - 1)) * 10 + HexVal(part[Len(part)])

\* packet[i] = v for a 0-based index i.
SetByte(packet, i, v) == [packet EXCEPT ![i + 1] = v]

\* The loop writing the firmware parts into packet[10 + i].
RECURSIVE WriteParts(_, _, _)
WriteParts(packet, parts, i) ==
  IF parts = <<>> THEN packet
  ELSE WriteParts(SetByte(packet, 10 + i, IntOf(Head(parts))), Tail(parts), i + 1)

\* Mutant: the board id written one byte further on.
CreateDiscoveryResponseBoardAt10(mac_address, board_id, firmware_version) ==
  LET zeros == [i \in 1..60 |-> 0]
      p2 == SetByte(SetByte(SetByte(zeros, 0, 239), 1, 254), 2, 2)
      mac_bytes == FromHex(SelectSeq(mac_address, LAMBDA c : c # ":"))
      p3 == Slice(p2, 0, 3) \o mac_bytes \o Slice(p2, 9, Len(p2))
      p4 == SetByte(p3, 10, board_id)
  IN WriteParts(p4, Slice(Split(firmware_version, "."), 0, 5), 1)

\* PacketHandler.create_discovery_response
CreateDiscoveryResponse(mac_address, board_id, firmware_version) ==
  LET zeros == [i \in 1..60 |-> 0]
      p2 == SetByte(SetByte(SetByte(zeros, 0, 239), 1, 254), 2, 2)
      mac_bytes == FromHex(SelectSeq(mac_address, LAMBDA c : c # ":"))
      p3 == Slice(p2, 0, 3) \o mac_bytes \o Slice(p2, 9, Len(p2))
      p4 == SetByte(p3, 9, board_id)
  IN WriteParts(p4, Slice(Split(firmware_version, "."), 0, 5), 0)

\* PacketHandler.parse: its effect on PacketHandler.stats.
ParseStats(st, data) ==
  LET st1 == [st EXCEPT !.total_packets = @ + 1]
  IN IF IsSetIpPacket(data) THEN st1
     ELSE IF IsDiscoveryPacket(data)
       THEN [st1 EXCEPT !.discovery_packets = @ + 1]
     ELSE IF IsProtocol1Data(data)
       THEN [st1 EXCEPT !.data_packets = @ + 1]
     ELSE [st1 EXCEPT !.unknown_packets = @ + 1]

\* ----------------------------------------------------- radio configuration
RECURSIVE RadiosDictFrom(_, _)
RadiosDictFrom(cfg, d) ==
  IF cfg = <<>> THEN d
  ELSE RadiosDictFrom(Tail(cfg), DictSet(d, Head(cfg).ip, Head(cfg)))

\* HPSDRProxy.radios: hostname -> RadioConfig.
RadiosDict == RadiosDictFrom(radios, <<>>)

\* socket.gethostbyname, with the fallback of _resolve_radio_ips: a name
\* that does not resolve is kept as the key.
Resolve(hostname) ==
  IF hostname \in DOMAIN DnsTable THEN DnsTable[hostname] ELSE hostname

RECURSIVE ResolveRadioIpsFrom(_, _)
ResolveRadioIpsFrom(rd, d) ==
  IF rd = <<>> THEN d
  ELSE ResolveRadioIpsFrom(Tail(rd), DictSet(d, Resolve(Head(rd)[1]), Head(rd)[2]))

\* HPSDRProxy.radio_ips: resolved IP -> RadioConfig.
RadioIps == ResolveRadioIpsFrom(RadiosDict, <<>>)

\* Mutant: the source is matched against the configured hostnames instead
\* of the resolved addresses.
IsFromRadioByHostname(client_ip) == DictHas(RadiosDict, client_ip)

IsFromRadio(client_ip) == DictHas(RadioIps, client_ip)

\* list(self.radios.values())[0]
FirstRadio == RadiosDict[1][2]

\* The loop "for ip, r in self.radio_ips.items(): if r == radio": the first
\* key whose radio equals the given one, "" when there is none.
ResolvedRadioIp(radio) ==
  LET hits == {i \in 1..Len(RadioIps) : RadioIps[i][2] = radio}
  IN IF hits = {} THEN ""
     ELSE RadioIps[CHOOSE i \in hits : \A j \in hits : i <= j][1]

GetDataPort(radio) ==
  IF radio.data_port # 0 THEN radio.data_port ELSE radio.port

\* ------------------------------------------------------------ session table
IsExpired(s) == now > s.expires_at

IsIdle(s, timeout_seconds) == (now - s.last_activity) > timeout_seconds

\* Mutant: the lookup without the expiry check.
GetSessionByClientNoExpiry(bc, addr) == DictGet(bc, addr, NoId)

\* The id of the session get_session_by_client returns, NoId for None.
GetSessionByClient(bc, addr) ==
  LET id == DictGet(bc, addr, NoId)
  IN IF id = NoId THEN NoId
     ELSE IF IsExpired(objs[id]) THEN NoId
     ELSE id

GetSessionByToken(bt, token) ==
  LET id == bt[token]
  IN IF id = NoId THEN NoId
     ELSE IF IsExpired(objs[id]) THEN NoId
     ELSE id

\* Mutant: the last matching session instead of the first.
RadioMatchIndexLast(bc, os, radio_address) ==
  LET hits == {i \in 1..Len(bc) : os[bc[i][2]].radio_address = radio_address}
  IN IF hits = {} THEN 0
     ELSE CHOOSE i \in hits : \A j \in hits : i >= j

\* The position in sessions_by_client of the session whose client
\* get_client_for_radio returns: the first one, in iteration order, whose
\* radio_address equals the radio endpoint; 0 when there is none.
RadioMatchIndex(bc, os, radio_address) ==
  LET hits == {i \in 1..Len(bc) : os[bc[i][2]].radio_address = radio_address}
  IN IF hits = {} THEN 0
     ELSE CHOOSE i \in hits : \A j \in hits : i <= j

GetClientForRadio(bc, os, radio_address) ==
  LET i == RadioMatchIndex(bc, os, radio_address)
  IN IF i = 0 THEN NoAddr ELSE os[bc[i][2]].client_address

\* _add_session on the three lookup tables and the statistics.
AddSession(t, s) ==
  LET bc == DictSet(t.bc, s.client_address, s.session_id)
  IN [bc |-> bc,
      bt |-> [t.bt EXCEPT ![s.token] = s.session_id],
      bi |-> t.bi \cup {s.session_id},
      stats |-> [t.stats EXCEPT !.active_sessions = Len(bc),
                                !.total_sessions = @ + 1]]

\* Mutant: the entry under the client address is left behind.
RemoveSessionKeepsClient(t, s) ==
  [bc |-> t.bc,
   bt |-> [t.bt EXCEPT ![s.token] = NoId],
   bi |-> t.bi \ {s.session_id},
   stats |-> [t.stats EXCEPT !.active_sessions = Len(t.bc)]]

\* _remove_session: each pop is by the removed session's own key.
RemoveSession(t, s) ==
  LET bc == DictPop(t.bc, s.client_address)
  IN [bc |-> bc,
      bt |-> [t.bt EXCEPT ![s.token] = NoId],
      bi |-> t.bi \ {s.session_id},
      stats |-> [t.stats EXCEPT !.active_sessions = Len(bc)]]

\* The session table as one value.
Table ==
  [bc |-> sessions_by_client, bt |-> sessions_by_token,
   bi |-> sessions_by_id, stats |-> sm_stats]

\* terminate_session(ip, port) run from its call to its return on table t:
\* the table it leaves and the database hooks it invokes, in order.
TerminateSession(t, addr) ==
  LET id == GetSessionByClient(t.bc, addr)
  IN IF id = NoId THEN [table |-> t, hooks |-> <<>>]
     ELSE [table |-> RemoveSession(t, objs[id]),
           hooks |-> <<[fn |-> "deactivate_session", sid |-> id],
                       [fn |-> "log_activity", sid |-> id]>>]


\* ---------------------------------------------------------------- forwarder
\* What a datagram handler works on: the session objects, the counters, the
\* socket's output, and a record of the calls made (for the properties).
HandlerState ==
  [objs |-> objs, fwd_stats |-> fwd_stats, session_stats |-> session_stats,
   ph_stats |-> ph_stats, sent |-> sent, last_assign |-> last_assign,
   activity_syncs |-> activity_syncs,
   calls |-> <<>>, raised |-> FALSE, returned |-> ""]

Called(h, fn, addr) == [h EXCEPT !.calls = Append(@, [fn |-> fn, addr |-> addr])]

ZeroSessionStats ==
  [packets_sent |-> 0, packets_received |-> 0, bytes_sent |-> 0, bytes_received |-> 0]

\* Mutant: a touch that also pushes the expiry forward.
UpdateActivitySliding(os, addr) ==
  LET id == GetSessionByClient(sessions_by_client, addr)
  IN IF id = NoId THEN os
     ELSE [os EXCEPT ![id].last_activity = now, ![id].expires_at = now + MaxTtl]

\* SessionManager.update_activity: ActiveSession.update_activity on the
\* session get_session_by_client returns.
UpdateActivity(os, addr) ==
  LET id == GetSessionByClient(sessions_by_client, addr)
  IN IF id = NoId THEN os ELSE [os EXCEPT ![id].last_activity = now]

\* SessionManager.update_activity, its database part: os holds the session
\* as ActiveSession.update_activity left it, and db.update_session_activity
\* is called when utcnow() is more than the threshold past its last_activity.
UpdateActivitySync(syncs, os, addr) ==
  LET id == GetSessionByClient(sessions_by_client, addr)
  IN IF id # NoId /\ now - os[id].last_activity > SyncThreshold
       THEN syncs \cup {[sid |-> id, at |-> now]}
       ELSE syncs

\* Mutant: the packet is counted before the send is attempted.
ForwardToRadioCountsFirst(h, addr, data, send_ok) ==
  LET id == GetSessionByClient(sessions_by_client, addr)
  IN IF id = NoId
       THEN [h EXCEPT !.fwd_stats.dropped_no_session = @ + 1]
     ELSE IF h.objs[id].radio_address = NoAddr
       THEN [h EXCEPT !.fwd_stats.dropped_no_radio = @ + 1]
     ELSE
       LET h1 == [h EXCEPT
                    !.fwd_stats.packets_forwarded_to_radio = @ + 1,
                    !.fwd_stats.bytes_forwarded_to_radio = @ + Len(data)]
       IN IF ~send_ok
            THEN [h1 EXCEPT !.fwd_stats.errors = @ + 1]
            ELSE [h1 EXCEPT
                    !.sent = Append(@, [data |-> data,
                                        addr |-> h.objs[id].radio_address]),
                    !.objs = UpdateActivity(@, addr)]

\* Mutant: the per-session counters are left out of a successful forward.
ForwardToRadioGlobalOnly(h, addr, data, send_ok) ==
  LET id == GetSessionByClient(sessions_by_client, addr)
  IN IF id = NoId
       THEN [h EXCEPT !.fwd_stats.dropped_no_session = @ + 1, !.returned = "False"]
     ELSE IF h.objs[id].radio_address = NoAddr
       THEN [h EXCEPT !.fwd_stats.dropped_no_radio = @ + 1, !.returned = "False"]
     ELSE IF ~send_ok
       THEN [h EXCEPT !.fwd_stats.errors = @ + 1, !.returned = "False"]
     ELSE
       [h EXCEPT
          !.sent = Append(@, [data |-> data, addr |-> h.objs[id].radio_address]),
          !.fwd_stats.packets_forwarded_to_radio = @ + 1,
          !.fwd_stats.bytes_forwarded_to_radio = @ + Len(data),
          !.objs = UpdateActivity(@, addr),
          !.returned = "True"]

\* Mutant: a session without a radio is touched before the packet is dropped.
ForwardToRadioTouchesFirst(h, addr, data, send_ok) ==
  LET id == GetSessionByClient(sessions_by_client, addr)
  IN IF id = NoId
       THEN [h EXCEPT !.fwd_stats.dropped_no_session = @ + 1, !.returned = "False"]
     ELSE IF h.objs[id].radio_address = NoAddr
       THEN [h EXCEPT !.fwd_stats.dropped_no_radio = @ + 1,
                      !.objs = UpdateActivity(@, addr),
                      !.returned = "False"]
     ELSE IF ~send_ok
       THEN [h EXCEPT !.fwd_stats.errors = @ + 1, !.returned = "False"]
     ELSE
       LET st == IF DictHas(h.session_stats, id) THEN h.session_stats
                 ELSE DictSet(h.session_stats, id, ZeroSessionStats)
       IN [h EXCEPT
             !.sent = Append(@, [data |-> data, addr |-> h.objs[id].radio_address]),
             !.fwd_stats.packets_forwarded_to_radio = @ + 1,
             !.fwd_stats.bytes_forwarded_to_radio = @ + Len(data),
             !.objs = UpdateActivity(@, addr),
             !.session_stats =
                DictSet(st, id,
                        [DictGet(st, id, ZeroSessionStats) EXCEPT
                           !.packets_sent = @ + 1,
                           !.bytes_sent = @ + Len(data)]),
             !.returned = "True"]

\* PacketForwarder.forward_to_radio; send_ok = FALSE is send_to raising.
\* returned is the value the call returns.
ForwardToRadio(h, addr, data, send_ok) ==
  LET id == GetSessionByClient(sessions_by_client, addr)
  IN IF id = NoId
       THEN [h EXCEPT !.fwd_stats.dropped_no_session = @ + 1, !.returned = "False"]
     ELSE IF h.objs[id].radio_address = NoAddr
       THEN [h EXCEPT !.fwd_stats.dropped_no_radio = @ + 1, !.returned = "False"]
     ELSE IF ~send_ok
       THEN [h EXCEPT !.fwd_stats.errors = @ + 1, !.returned = "False"]
     ELSE
       LET st == IF DictHas(h.session_stats, id) THEN h.session_stats
                 ELSE DictSet(h.session_stats, id, ZeroSessionStats)
       IN [h EXCEPT
             !.sent = Append(@, [data |-> data, addr |-> h.objs[id].radio_address]),
             !.fwd_stats.packets_forwarded_to_radio = @ + 1,
             !.fwd_stats.bytes_forwarded_to_radio = @ + Len(data),
             !.objs = UpdateActivity(@, addr),
             !.activity_syncs =
                UpdateActivitySync(@, UpdateActivity(h.objs, addr), addr),
             !.session_stats =
                DictSet(st, id,
                        [DictGet(st, id, ZeroSessionStats) EXCEPT
                           !.packets_sent = @ + 1,
                           !.bytes_sent = @ + Len(data)]),
             !.returned = "True"]

\* PacketForwarder.forward_to_client.
ForwardToClient(h, radio_addr, data, send_ok) ==
  LET client_address == GetClientForRadio(sessions_by_client, h.objs, radio_addr)
      id == GetSessionByClient(sessions_by_client, client_address)
  IN IF client_address = NoAddr THEN h
     ELSE IF ~send_ok
       THEN [h EXCEPT !.fwd_stats.errors = @ + 1]
     ELSE
       [h EXCEPT
          !.sent = Append(@, [data |-> data, addr |-> client_address]),
          !.fwd_stats.packets_forwarded_to_client = @ + 1,
          !.fwd_stats.bytes_forwarded_to_client = @ + Len(data),
          !.session_stats =
             IF id # NoId /\ DictHas(h.session_stats, id)
               THEN DictSet(h.session_stats, id,
                            [DictGet(h.session_stats, id, ZeroSessionStats) EXCEPT
                               !.packets_received = @ + 1,
                               !.bytes_received = @ + Len(data)])
               ELSE h.session_stats]

\* SessionManager.assign_radio.
AssignRadio(h, addr, radio_address) ==
  LET id == GetSessionByClient(sessions_by_client, addr)
  IN IF id = NoId THEN h
     ELSE [h EXCEPT !.objs[id].radio_address = radio_address,
                    !.last_assign = (radio_address :> addr) @@ h.last_assign]

\* self.session_manager.create_anonymous_session(...): SessionManager has no
\* attribute of that name, so the call raises AttributeError, which
\* _handle_client_packet catches and logs.
CreateAnonymousSession(h, addr) == [h EXCEPT !.raised = TRUE]

\* SessionManager.validate_client(ip, port, token=None): the session table's
\* part, a touch of the live session.
ValidateClientNoToken(os, addr) ==
  LET id == GetSessionByClient(sessions_by_client, addr)
  IN IF id = NoId THEN os ELSE [os EXCEPT ![id].last_activity = now]

\* HPSDRProxy._handle_discovery.
HandleDiscovery(h, addr, data, send_ok) ==
  LET session == GetSessionByClient(sessions_by_client, addr)
      h1 == [h EXCEPT !.objs = ValidateClientNoToken(@, addr)]
  IN IF session = NoId /\ ~allow_anonymous THEN h1
     ELSE IF RadiosDict = <<>> THEN h1
     ELSE IF ResolvedRadioIp(FirstRadio) = "" THEN h1
     ELSE IF session = NoId /\ allow_anonymous
       THEN CreateAnonymousSession(h1, addr)
     ELSE ForwardToRadio(
            AssignRadio(h1, addr, <<ResolvedRadioIp(FirstRadio), FirstRadio.port>>),
            addr, data, send_ok)

\* HPSDRProxy._handle_data.
HandleData(h, addr, data, send_ok) ==
  LET session == GetSessionByClient(sessions_by_client, addr)
  IN IF session = NoId
       THEN IF allow_anonymous THEN CreateAnonymousSession(h, addr) ELSE h
     ELSE ForwardToRadio(h, addr, data, send_ok)

\* HPSDRProxy._handle_set_ip.
HandleSetIp(h, addr, data, send_ok) ==
  LET session == GetSessionByClient(sessions_by_client, addr)
  IN IF session = NoId
       THEN IF allow_anonymous THEN CreateAnonymousSession(h, addr) ELSE h
     ELSE ForwardToRadio(h, addr, data, send_ok)

\* Mutant: an UNKNOWN packet is dropped instead of taking the data path.
DispatchDropUnknown(h, packet_type, addr, data, send_ok) ==
  IF packet_type = "DISCOVERY"
    THEN HandleDiscovery(Called(h, "_handle_discovery", addr), addr, data, send_ok)
  ELSE IF packet_type = "SET_IP"
    THEN HandleSetIp(Called(h, "_handle_set_ip", addr), addr, data, send_ok)
  ELSE IF packet_type = "DATA"
    THEN HandleData(Called(h, "_handle_data", addr), addr, data, send_ok)
  ELSE h

\* The dispatch of _handle_client_packet on the parsed packet's type.
Dispatch(h, packet_type, addr, data, send_ok) ==
  IF packet_type = "DISCOVERY"
    THEN HandleDiscovery(Called(h, "_handle_discovery", addr), addr, data, send_ok)
  ELSE IF packet_type = "SET_IP"
    THEN HandleSetIp(Called(h, "_handle_set_ip", addr), addr, data, send_ok)
  ELSE IF packet_type = "DATA"
    THEN HandleData(Called(h, "_handle_data", addr), addr, data, send_ok)
  ELSE IF packet_type = "UNKNOWN"
    THEN HandleData(Called(h, "_handle_data", addr), addr, data, send_ok)
  ELSE ForwardToRadio(Called(h, "forward_to_radio", addr), addr, data, send_ok)

\* HPSDRProxy._rewrite_discovery_response: bytes 10..13 become the proxy's
\* address; a datagram shorter than 14 bytes is returned as it is.
RewriteDiscoveryResponse(data) ==
  IF Len(data) < 14 THEN data
  ELSE [i \in 1..Len(data) |-> IF i \in 11..14 THEN ProxyIpBytes[i - 10] ELSE data[i]]

\* Mutant: the radio's datagram is rewritten before it is forwarded.
HandleClientPacketRewriting(h, addr, data, send_ok) ==
  IF IsFromRadio(addr[1])
    THEN ForwardToClient(Called(h, "forward_to_client", addr), addr,
                         RewriteDiscoveryResponse(data), send_ok)
  ELSE
    LET h1 == [Called(h, "parse", NoAddr) EXCEPT !.ph_stats = ParseStats(@, data)]
    IN Dispatch(h1, PacketType(data), addr, data, send_ok)

\* HPSDRProxy._handle_client_packet.
HandleClientPacket(h, addr, data, send_ok) ==
  IF IsFromRadio(addr[1])
    THEN ForwardToClient(Called(h, "forward_to_client", addr), addr, data, send_ok)
  ELSE
    LET h1 == [Called(h, "parse", NoAddr) EXCEPT !.ph_stats = ParseStats(@, data)]
    IN Dispatch(h1, PacketType(data), addr, data, send_ok)


\* ------------------------------------------------------------ initial state
ZeroSmStats ==
  [total_sessions |-> 0, active_sessions |-> 0, expired_sessions |-> 0, timeouts |-> 0]

ZeroFwdStats ==
  [packets_forwarded_to_radio |-> 0, packets_forwarded_to_client |-> 0,
   bytes_forwarded_to_radio |-> 0, bytes_forwarded_to_client |-> 0,
   errors |-> 0, dropped_no_session |-> 0, dropped_no_radio |-> 0]

ZeroPhStats ==
  [total_packets |-> 0, discovery_packets |-> 0, data_packets |-> 0,
   unknown_packets |-> 0, error_packets |-> 0]

ZeroListenerStats == [packets_received |-> 0, bytes_received |-> 0, errors |-> 0]

\* HPSDRProxy right after construction: nothing is started, _running is
\* False. pc is the place run() is at; signals counts the SIGINT/SIGTERM
\* deliveries; steps lists the stop calls shutdown() has made.
ConstructedProxy ==
  [pc |-> "init_db", running |-> FALSE, db |-> FALSE, sm |-> FALSE,
   listener |-> FALSE, fwd |-> FALSE, signals |-> 0, steps |-> <<>>]

\* HPSDRProxy in its main loop, every component started.
RunningProxy ==
  [pc |-> "running", running |-> TRUE, db |-> TRUE, sm |-> TRUE,
   listener |-> TRUE, fwd |-> TRUE, signals |-> 0, steps |-> <<>>]

IdleVTask == [pc |-> "idle", addr |-> NoAddr, token |-> "", expires_at |-> 0]

IdleTTask == [pc |-> "idle", sid |-> NoId]

IdleFlusher == [pc |-> "sleep", queue |-> <<>>, args |-> ZeroSessionStats]

NoParse ==
  [fn |-> "", args |-> <<>>, data |-> <<>>, packet |-> HPSDRPacket(""),
   result |-> NoByte]

NoDispatch ==
  [src |-> NoAddr, data |-> <<>>, send_ok |-> TRUE, packet_type |-> "",
   calls |-> <<>>, raised |-> FALSE, returned |-> ""]

\* ---------------------------------------------------------------------
\* AuthManager.authenticate and the users row it reads and writes.

\* User.locked_until of an account that is not locked (NULL).
NotLocked == 0 - 1

Usernames == {"alice", "nobody"}
Passwords == {"right", "wrong"}

\* The one row of the users table: an enabled account.
TestUser ==
  [username |-> "alice", password |-> "right", enabled |-> TRUE,
   failed_login_attempts |-> 0, locked_until |-> NotLocked]

\* User.is_locked at time t.
IsLocked(user, t) ==
  IF user.locked_until = NotLocked THEN FALSE ELSE t < user.locked_until

\* DatabaseManager.increment_failed_login.
IncrementFailedLogin(user) ==
  [user EXCEPT !.failed_login_attempts = @ + 1]

\* DatabaseManager.reset_failed_login.
ResetFailedLogin(user) ==
  [user EXCEPT !.failed_login_attempts = 0, !.locked_until = NotLocked]

\* DatabaseManager.lock_user at time t.
LockUser(user, t, duration_seconds) ==
  [user EXCEPT !.locked_until = t + duration_seconds]

\* AuthManager.verify_password against the stored hash.
VerifyPassword(password, user) == password = user.password

\* What a call of authenticate leaves: the row, what it raised ("" when it
\* returned), whether tokens were generated and a session row created.
AuthOutcome(user, raised, tokens, sessions) ==
  [user |-> user, raised |-> raised, tokens |-> tokens, sessions |-> sessions]

\* authenticate with the password verified before the lock is looked at.
AuthenticatePasswordFirst(user, t, username, password) ==
  IF username # user.username \/ ~user.enabled
  THEN AuthOutcome(user, "InvalidCredentialsError", 0, 0)
  ELSE IF VerifyPassword(password, user)
  THEN AuthOutcome(ResetFailedLogin(user), "", 2, 1)
  ELSE IF IsLocked(user, t)
  THEN AuthOutcome(user, "AccountLockedError", 0, 0)
  ELSE LET failed == IncrementFailedLogin(user) IN
       AuthOutcome(IF failed.failed_login_attempts >= MaxLoginAttempts
                   THEN LockUser(failed, t, LockoutDuration) ELSE failed,
                   "InvalidCredentialsError", 0, 0)

\* AuthManager.authenticate at time t against the users row.
Authenticate(user, t, username, password) ==
  IF username # user.username \/ ~user.enabled
  THEN AuthOutcome(user, "InvalidCredentialsError", 0, 0)
  ELSE IF IsLocked(user, t)
  THEN AuthOutcome(user, "AccountLockedError", 0, 0)
  ELSE IF ~VerifyPassword(password, user)
  THEN LET failed == IncrementFailedLogin(user) IN
       AuthOutcome(IF failed.failed_login_attempts >= MaxLoginAttempts
                   THEN LockUser(failed, t, LockoutDuration) ELSE failed,
                   "InvalidCredentialsError", 0, 0)
  ELSE AuthOutcome(ResetFailedLogin(user), "", 2, 1)

NoAuth == [username |-> "", password |-> "", raised |-> "", at |-> 0]

\* The users row, the rows of the sessions table and the tokens generated
\* so far, the calls made, the run of wrong passwords for the account with
\* nothing else touching it in between, and the last call.
InitialAuth ==
  [user |-> TestUser, db_sessions |-> 0, tokens |-> 0, calls |-> 0,
   wrong_run |-> 0, last_auth |-> NoAuth]


Init ==
  /\ now = 0
  /\ allow_anonymous \in BOOLEAN
  /\ radios = RadioConfig
  /\ objs = <<>>
  /\ sessions_by_client = <<>>
  /\ sessions_by_token = [t \in Tokens |-> NoId]
  /\ sessions_by_id = {}
  /\ sm_stats = ZeroSmStats
  /\ fwd_stats = ZeroFwdStats
  /\ session_stats = <<>>
  /\ ph_stats = ZeroPhStats
  /\ listener_stats = ZeroListenerStats
  /\ sent = <<>>
  /\ vtask = [t \in ValTasks |-> IdleVTask]
  /\ ttask = IdleTTask
  /\ reaper = [pc |-> "sleep", queue |-> <<>>, cur |-> NoId,
               expired |-> <<>>, idle |-> <<>>]
  /\ terminated = {}
  /\ last_assign = <<>>
  /\ last_dispatch = NoDispatch
  /\ ready = <<>>
  /\ flusher = IdleFlusher
  /\ last_parse = NoParse
  /\ resets = 0
  /\ proxy = RunningProxy
  /\ auth = InitialAuth
  /\ activity_syncs = {}

\* ------------------------------------------------------------------ actions
tableVars == <<sessions_by_client, sessions_by_token, sessions_by_id, sm_stats>>
configVars == <<allow_anonymous, radios>>
trafficVars == <<fwd_stats, session_stats, ph_stats, listener_stats, sent,
                 last_assign, last_dispatch, ready, flusher, last_parse>>

SetTable(t) ==
  /\ sessions_by_client' = t.bc
  /\ sessions_by_token' = t.bt
  /\ sessions_by_id' = t.bi
  /\ sm_stats' = t.stats

\* The clock advances.
Tick ==
  /\ now < MaxTime
  /\ now' = now + 1
  /\ UNCHANGED <<configVars, resets, proxy, auth, activity_syncs, objs, tableVars, trafficVars, vtask, ttask,
                 reaper, terminated>>

\* The clock of the reaper specification, which runs one unit longer so that
\* a session can expire while a tick is suspended in the database.
TickReaper ==
  /\ now < MaxReaperTime
  /\ now' = now + 1
  /\ UNCHANGED <<configVars, resets, proxy, auth, activity_syncs, objs, tableVars, trafficVars, vtask, ttask,
                 reaper, terminated>>

\* UDPListener._handle_packet: the datagram is counted and handed to
\* HPSDRProxy._handle_client_packet, which runs to its end.
HandlePacket(addr, data, send_ok) ==
  /\ listener_stats' = [listener_stats EXCEPT
                          !.packets_received = @ + 1,
                          !.bytes_received = @ + Len(data)]
  /\ \E h \in {HandleClientPacket(HandlerState, addr, data, send_ok)} :
        /\ objs' = h.objs
        /\ fwd_stats' = h.fwd_stats
        /\ session_stats' = h.session_stats
        /\ ph_stats' = h.ph_stats
        /\ sent' = h.sent
        /\ activity_syncs' = h.activity_syncs
        /\ last_assign' = h.last_assign
        /\ last_dispatch' =
             [src |-> addr, data |-> data, send_ok |-> send_ok,
              packet_type |-> IF IsFromRadio(addr[1]) THEN "" ELSE PacketType(data),
              calls |-> h.calls, raised |-> h.raised, returned |-> h.returned]
  /\ UNCHANGED <<now, configVars, resets, proxy, auth, tableVars, vtask, ttask, reaper, terminated,
                 flusher, last_parse>>

\* One datagram from the socket, handled as soon as it is received.
ReceiveDatagram(addr, data, send_ok) ==
  /\ proxy.listener
  /\ listener_stats.packets_received < MaxDatagrams
  /\ ready = <<>>
  /\ HandlePacket(addr, data, send_ok)
  /\ UNCHANGED ready


\* UDPProtocol.datagram_received: asyncio.create_task(_process_packet(...))
\* puts a task at the end of the event loop's queue.  n is the arrival
\* number, behind the number of tasks that were waiting when it arrived.
DatagramReceived(addr, data) ==
  /\ proxy.listener
  /\ listener_stats.packets_received + Len(ready) < MaxDatagrams
  /\ ready' = Append(ready,
                     [addr |-> addr, data |-> data,
                      n |-> listener_stats.packets_received + Len(ready) + 1,
                      behind |-> Len(ready)])
  /\ UNCHANGED <<now, configVars, resets, proxy, auth, activity_syncs, objs, tableVars, fwd_stats, session_stats,
                 ph_stats, listener_stats, sent, last_assign, last_dispatch,
                 flusher, last_parse, vtask, ttask, reaper, terminated>>

\* Mutant: the event loop runs the newest task first.
TaskIndexNewest(q) == Len(q)

\* The task the event loop runs next: tasks start in the order of their
\* creation.
TaskIndex(q) == 1

\* The event loop runs one _process_packet task, which does not suspend
\* before it ends.
RunTask(send_ok) ==
  /\ ready # <<>>
  /\ LET i == TaskIndex(ready)
     IN /\ HandlePacket(ready[i].addr, ready[i].data, send_ok)
        /\ ready' = [j \in 1..(Len(ready) - 1) |->
                       IF j < i THEN ready[j] ELSE ready[j + 1]]

\* validate_client(ip, port, token) from an external caller holding a token.
\* A live session is touched and returned; otherwise the call suspends in
\* auth.validate_token / db.get_session_by_token.
ValidateClient(t, addr, token) ==
  /\ vtask[t].pc = "idle"
  /\ LET id == GetSessionByClient(sessions_by_client, addr)
     IN IF id # NoId
          THEN /\ objs' = [objs EXCEPT ![id].last_activity = now]
               /\ UNCHANGED vtask
          ELSE /\ Len(objs) + Cardinality({u \in ValTasks : vtask[u].pc # "idle"})
                    < MaxSessions
               /\ vtask' = [vtask EXCEPT ![t] =
                    [pc |-> "auth", addr |-> addr, token |-> token, expires_at |-> 0]]
               /\ UNCHANGED objs
  /\ UNCHANGED <<now, configVars, resets, proxy, auth, activity_syncs, tableVars, trafficVars, ttask, reaper, terminated>>

\* The token is invalid, the user is disabled, the database has no active
\* session for it, or one of the two calls raises: (False, None).
ValidateReject(t) ==
  /\ vtask[t].pc = "auth"
  /\ vtask' = [vtask EXCEPT ![t] = IdleVTask]
  /\ UNCHANGED <<now, configVars, resets, proxy, auth, activity_syncs, objs, tableVars, trafficVars, ttask, reaper,
                 terminated>>

\* create_session up to its await: the entry stored for the client, if any,
\* is removed, then db.create_session is awaited.
CreateSessionBegin(t, expires_at) ==
  /\ vtask[t].pc = "auth"
  /\ LET existing == DictGet(sessions_by_client, vtask[t].addr, NoId)
     IN IF existing # NoId
          THEN SetTable(RemoveSession(Table, objs[existing]))
          ELSE UNCHANGED tableVars
  /\ vtask' = [vtask EXCEPT ![t].pc = "insert", ![t].expires_at = expires_at]
  /\ UNCHANGED <<now, configVars, resets, proxy, auth, activity_syncs, objs, trafficVars, ttask, reaper, terminated>>

\* db.create_session raises; create_session re-raises and validate_client
\* returns (False, None).
CreateSessionDbError(t) ==
  /\ vtask[t].pc = "insert"
  /\ vtask' = [vtask EXCEPT ![t] = IdleVTask]
  /\ UNCHANGED <<now, configVars, resets, proxy, auth, activity_syncs, objs, tableVars, trafficVars, ttask, reaper,
                 terminated>>

\* create_session after its await: the ActiveSession is built from the new
\* database row, whose created_at the database set as it inserted the row,
\* and added to the lookup tables.
CreateSessionFinish(t) ==
  /\ vtask[t].pc = "insert"
  /\ Len(objs) < MaxSessions
  /\ LET s == [session_id |-> Len(objs) + 1,
               token |-> vtask[t].token,
               client_address |-> vtask[t].addr,
               radio_address |-> NoAddr,
               created_at |-> now,
               expires_at |-> vtask[t].expires_at,
               last_activity |-> now]
     IN /\ objs' = Append(objs, s)
        /\ SetTable(AddSession(Table, s))
  /\ vtask' = [vtask EXCEPT ![t] = IdleVTask]
  /\ UNCHANGED <<now, configVars, resets, proxy, auth, activity_syncs, trafficVars, ttask, reaper, terminated>>

\* terminate_session(ip, port) from an external caller, up to its first
\* await.  With no live session for the client it returns at once.
TerminateBegin(addr) ==
  /\ ttask.pc = "idle"
  /\ DictHas(sessions_by_client, addr)
  /\ LET id == GetSessionByClient(sessions_by_client, addr)
     IN IF id = NoId
          THEN /\ terminated' = terminated \cup {DictGet(sessions_by_client, addr, NoId)}
               /\ UNCHANGED ttask
          ELSE /\ ttask' = [pc |-> "wait", sid |-> id]
               /\ UNCHANGED terminated
  /\ UNCHANGED <<now, configVars, resets, proxy, auth, activity_syncs, objs, tableVars, trafficVars, vtask, reaper>>

\* terminate_session after db.deactivate_session and db.log_activity.
TerminateFinish ==
  /\ ttask.pc = "wait"
  /\ SetTable(RemoveSession(Table, objs[ttask.sid]))
  /\ terminated' = terminated \cup {ttask.sid}
  /\ ttask' = IdleTTask
  /\ UNCHANGED <<now, configVars, resets, proxy, auth, activity_syncs, objs, trafficVars, vtask, reaper>>

\* ------------------------------------------------------------------- reaper
Bump(st, reason) ==
  IF reason = "expired" THEN [st EXCEPT !.expired_sessions = @ + 1]
  ELSE [st EXCEPT !.timeouts = @ + 1]

\* The two loops of _cleanup_sessions, run until a terminate_session call
\* suspends: a call that finds no live session for the victim's client
\* returns without suspending and the victim is counted.
RECURSIVE RunVictims(_, _, _, _)
RunVictims(bc, st, queue, done) ==
  IF queue = <<>> THEN [stats |-> st, queue |-> queue, done |-> done]
  ELSE
    LET addr == objs[Head(queue).sid].client_address
    IN IF GetSessionByClient(bc, addr) = NoId
         THEN RunVictims(bc, Bump(st, Head(queue).reason), Tail(queue),
                         done \cup (DictValues(bc) \cap {DictGet(bc, addr, NoId)}))
         ELSE [stats |-> st, queue |-> queue, done |-> done]

\* list(self.sessions_by_client.values()), as session ids.
StoredIds == [i \in 1..Len(sessions_by_client) |-> sessions_by_client[i][2]]

\* The expired list of _cleanup_sessions, in iteration order.
ExpiredVictims ==
  LET hit == SelectSeq(StoredIds, LAMBDA id : IsExpired(objs[id]))
  IN [i \in 1..Len(hit) |-> [sid |-> hit[i], reason |-> "expired"]]

\* The idle list of _cleanup_sessions: not expired, and idle.
IdleVictims ==
  LET hit == SelectSeq(StoredIds, LAMBDA id : ~IsExpired(objs[id])
                                               /\ IsIdle(objs[id], SessionTimeout))
  IN [i \in 1..Len(hit) |-> [sid |-> hit[i], reason |-> "timeout"]]

ReaperResume(bc, r, expired, idle) ==
  /\ sm_stats' = r.stats
  /\ terminated' = r.done
  /\ reaper' =
       [pc |-> IF r.queue = <<>> THEN "db_cleanup" ELSE "term_wait",
        queue |-> r.queue,
        cur |-> IF r.queue = <<>> THEN NoId
                ELSE GetSessionByClient(bc, objs[Head(r.queue).sid].client_address),
        expired |-> expired, idle |-> idle]

\* _cleanup_sessions from its start: the expired and the idle sessions are
\* collected, then terminated one after the other.
ReaperCollect ==
  /\ reaper.pc = "sleep"
  /\ sm_stats.expired_sessions + sm_stats.timeouts < MaxReaped
  /\ LET expired == ExpiredVictims
         idle == IdleVictims
     IN ReaperResume(sessions_by_client,
                     RunVictims(sessions_by_client, sm_stats, expired \o idle,
                                terminated),
                     expired, idle)
  /\ UNCHANGED <<sessions_by_client, sessions_by_token, sessions_by_id>>
  /\ UNCHANGED <<now, configVars, resets, proxy, auth, activity_syncs, objs, trafficVars, vtask, ttask>>

\* The terminate_session call the reaper is suspended in completes: the
\* session it found is removed and the victim is counted.
ReaperTerminateFinish ==
  /\ reaper.pc = "term_wait"
  /\ LET t == RemoveSession(Table, objs[reaper.cur])
     IN /\ sessions_by_client' = t.bc
        /\ sessions_by_token' = t.bt
        /\ sessions_by_id' = t.bi
        /\ ReaperResume(t.bc,
                        RunVictims(t.bc, Bump(t.stats, Head(reaper.queue).reason),
                                   Tail(reaper.queue),
                                   terminated \cup {reaper.cur}),
                        reaper.expired, reaper.idle)
  /\ UNCHANGED <<now, configVars, resets, proxy, auth, activity_syncs, objs, trafficVars, vtask, ttask>>

\* db.cleanup_expired_sessions returns and the tick ends.
ReaperDbCleanup ==
  /\ reaper.pc = "db_cleanup"
  /\ reaper' = [reaper EXCEPT !.pc = "sleep"]
  /\ UNCHANGED <<now, configVars, resets, proxy, auth, activity_syncs, objs, tableVars, trafficVars, vtask, ttask,
                 terminated>>

\* db.deactivate_session or db.log_activity raises in the terminate_session
\* call the reaper is suspended in: nothing in terminate_session or
\* _cleanup_sessions catches the exception, so the session is not removed,
\* the victims behind it are not visited, db.cleanup_expired_sessions is not
\* called, and _cleanup_loop logs the error and goes back to sleep.
ReaperTerminateError ==
  /\ reaper.pc = "term_wait"
  /\ reaper' = [reaper EXCEPT !.pc = "sleep", !.queue = <<>>, !.cur = NoId]
  /\ UNCHANGED <<now, configVars, resets, proxy, auth, activity_syncs, objs, tableVars, trafficVars, vtask, ttask,
                 terminated>>

ValidateFlow(tasks, tokens, ttls) ==
  \/ \E t \in tasks, addr \in ClientAddrs, token \in tokens :
       ValidateClient(t, addr, token)
  \/ \E t \in tasks : ValidateReject(t)
  \/ \E t \in tasks, e \in ttls : CreateSessionBegin(t, now + e)
  \/ \E t \in tasks : CreateSessionDbError(t)
  \/ \E t \in tasks : CreateSessionFinish(t)

\* SessionManager.stop: the cleanup task is cancelled and awaited.  The
\* CancelledError is raised at the await the task is suspended in
\* (asyncio.sleep, a database call of terminate_session, or
\* db.cleanup_expired_sessions) and leaves _cleanup_sessions for the
\* except clause of _cleanup_loop, which breaks out of the loop: the victims
\* still in the queue stay in the table.
SessionManagerStop ==
  /\ reaper.pc # "stopped"
  /\ reaper' = [reaper EXCEPT !.pc = "stopped"]
  /\ UNCHANGED <<now, configVars, resets, proxy, auth, activity_syncs, objs, tableVars, trafficVars, vtask, ttask,
                 terminated>>

\* The reaper at work on sessions of its own, and stopped at any moment.
NextStop ==
  \/ TickReaper
  \/ ValidateFlow({1}, Tokens, {MaxTtl})
  \/ ReaperCollect
  \/ ReaperTerminateFinish
  \/ ReaperDbCleanup
  \/ SessionManagerStop

\* SessionManager.assign_radio called with the data port of the first
\* radio, the call _handle_data makes for a session it has just created.
AssignRadioCall(addr) ==
  /\ RadiosDict # <<>>
  /\ ResolvedRadioIp(FirstRadio) # ""
  /\ \E h \in {AssignRadio(HandlerState, addr,
                           <<ResolvedRadioIp(FirstRadio), GetDataPort(FirstRadio)>>)} :
       /\ objs' = h.objs
       /\ last_assign' = h.last_assign
  /\ UNCHANGED <<now, configVars, resets, proxy, auth, activity_syncs, tableVars, fwd_stats,
                 session_stats, ph_stats, listener_stats, sent, last_dispatch,
                 ready, flusher, last_parse, vtask, ttask, reaper, terminated>>

\* Sessions that are bound to the data port and then send datagrams of
\* every kind.
NextBind ==
  \/ Tick
  \/ ValidateFlow({1}, {"t1"}, {MaxTtl})
  \/ \E addr \in ClientAddrs : AssignRadioCall(addr)
  \/ \E addr \in ClientAddrs, data \in {DiscoveryReq, DataPkt, SetIpPkt} :
       ReceiveDatagram(addr, data, TRUE)

NextTable ==
  \/ Tick
  \/ ValidateFlow(ValTasks, Tokens, 1..MaxTtl)
  \/ \E addr \in ClientAddrs : TerminateBegin(addr)
  \/ TerminateFinish
  \/ ReaperCollect
  \/ ReaperTerminateFinish
  \/ ReaperDbCleanup

NextDispatch ==
  \/ Tick
  \/ \E addr \in ClientAddrs \cup RadioSrcAddrs, data \in Payloads, ok \in BOOLEAN :
       ReceiveDatagram(addr, data, ok)
  \/ ValidateFlow({1}, {"t1"}, 1..DispatchTtl)

\* Sessions that get a radio through Discovery and are terminated by a caller.
NextTerminate ==
  \/ Tick
  \/ \E addr \in ClientAddrs : ReceiveDatagram(addr, DiscoveryReq, TRUE)
  \/ ValidateFlow({1}, Tokens, 1..MaxTtl)
  \/ \E addr \in ClientAddrs : TerminateBegin(addr)
  \/ TerminateFinish

\* A client with a long-lived session sends datagrams as the clock runs.
NextTouch ==
  \/ Tick
  \/ ValidateFlow({1}, {"t1"}, {MaxTtl})
  \/ \E addr \in ClientAddrs, data \in {DiscoveryReq, DataPkt} :
       ReceiveDatagram(addr, data, TRUE)

\* Datagrams queue up as tasks of the event loop before they are handled.
LoopPayloads == {DiscoveryReq, DataPkt, DiscoveryResp}

NextLoop ==
  \/ Tick
  \/ \E addr \in ClientAddrs \cup {<<"10.0.0.5", 1024>>}, data \in LoopPayloads :
       DatagramReceived(addr, data)
  \/ RunTask(TRUE)
  \/ ValidateFlow({1}, {"t1"}, 1..DispatchTtl)

\* ------------------------------------------------------- statistics flusher
\* The loop of _save_statistics over the session ids in queue, run until
\* db.record_statistics suspends: the entry of a session that is no longer in
\* sessions_by_id is deleted on the way.  The counters passed to
\* db.record_statistics are read when the call is made (flusher.args).
RECURSIVE RunFlush(_, _)
RunFlush(st, queue) ==
  IF queue = <<>> THEN [session_stats |-> st, queue |-> queue]
  ELSE IF Head(queue) \notin sessions_by_id
    THEN RunFlush(DictPop(st, Head(queue)), Tail(queue))
  ELSE [session_stats |-> st, queue |-> queue]

FlushResume(r) ==
  /\ session_stats' = r.session_stats
  /\ flusher' = [pc |-> IF r.queue = <<>> THEN "sleep" ELSE "record",
                 queue |-> r.queue,
                 args |-> IF r.queue = <<>> THEN ZeroSessionStats
                          ELSE DictGet(r.session_stats, Head(r.queue), ZeroSessionStats)]
  /\ UNCHANGED <<now, configVars, resets, proxy, auth, activity_syncs, objs, tableVars, fwd_stats, ph_stats,
                 listener_stats, sent, last_assign, last_dispatch, ready,
                 last_parse, vtask, ttask, reaper, terminated>>

\* _stats_collection_loop wakes up and _save_statistics starts over
\* list(self.session_stats.items()).
FlushBegin ==
  /\ flusher.pc = "sleep"
  /\ session_stats # <<>>
  /\ FlushResume(RunFlush(session_stats,
                          [i \in 1..Len(session_stats) |-> session_stats[i][1]]))

\* db.record_statistics returns: the four counters of the session are set
\* to zero and the loop goes on.
FlushRecordFinish ==
  /\ flusher.pc = "record"
  /\ FlushResume(RunFlush(DictSet(session_stats, Head(flusher.queue), ZeroSessionStats),
                          Tail(flusher.queue)))

\* db.record_statistics raises: the error is logged and the flush is over.
FlushDbError ==
  /\ flusher.pc = "record"
  /\ flusher' = IdleFlusher
  /\ UNCHANGED <<now, configVars, resets, proxy, auth, activity_syncs, objs, tableVars, fwd_stats, session_stats,
                 ph_stats, listener_stats, sent, last_assign, last_dispatch,
                 ready, last_parse, vtask, ttask, reaper, terminated>>

\* ------------------------------------------------------- reset_statistics
ResetCall ==
  /\ resets < MaxResets
  /\ resets' = resets + 1
  /\ UNCHANGED <<now, configVars, proxy, auth, activity_syncs, objs, tableVars, session_stats, sent,
                 last_assign, last_dispatch, ready, flusher, last_parse,
                 vtask, ttask, reaper, terminated>>

\* PacketForwarder.reset_statistics
ForwarderResetStatistics ==
  /\ ResetCall
  /\ fwd_stats' = ZeroFwdStats
  /\ UNCHANGED <<ph_stats, listener_stats>>

\* PacketHandler.reset_statistics
HandlerResetStatistics ==
  /\ ResetCall
  /\ ph_stats' = ZeroPhStats
  /\ UNCHANGED <<fwd_stats, listener_stats>>

\* UDPListener.reset_statistics
ListenerResetStatistics ==
  /\ ResetCall
  /\ listener_stats' = ZeroListenerStats
  /\ UNCHANGED <<fwd_stats, ph_stats>>

\* Traffic of authenticated clients with the flusher and the resets.
NextStats ==
  \/ ValidateFlow({1}, {"t1"}, {MaxTtl})
  \/ \E addr \in ClientAddrs \cup RadioSrcAddrs, data \in {DiscoveryReq, DataPkt} :
       ReceiveDatagram(addr, data, TRUE)
  \/ FlushBegin
  \/ FlushRecordFinish
  \/ FlushDbError
  \/ ForwarderResetStatistics
  \/ HandlerResetStatistics
  \/ ListenerResetStatistics

\* ------------------------------------------------------------ parser calls
Headers ==
  {<<239, 254, 4>>, <<239, 254, 2>>, <<239, 254, 1>>, <<239, 254, 3>>,
   <<239, 0, 2>>, <<0, 254, 4>>}

Tails ==
  {<<0, 0, 0, 0, 0, 0, 0, 0, 0, 0, 0, 0>>,
   <<1, 10, 0, 0, 5, 0, 0, 0, 0, 0, 0, 0>>,
   <<0, 28, 192, 162, 34, 93, 6, 10, 0, 0, 5, 0>>,
   <<0, 0, 0, 0, 0, 171, 255, 1, 2, 3, 4, 5>>,
   <<0, 0, 0, 0, 0, 0, 6, 1, 0, 0, 0, 0>>}

\* Data packets of 16 and 20 bytes, and full frames of 1032 bytes: sequence
\* numbers with all four bytes significant, C0 with and without its two
\* low bits.
DataFrames ==
  {<<239, 254, 1, 1, 2, 3, 4>> \o [i \in 1..n |-> IF i = 5 THEN c0 ELSE i % 256] :
     n \in {9, 13, Protocol1Size - 7}, c0 \in {0, 1, 2, 255}}

\* Full frames whose C1..C4 hold the frequency words 0, 18, 0x0000FFFF,
\* 0x12345678 and 0xFFFFFFFF.
TunedFrames ==
  {<<239, 254, 1, 0, 0, 0, 1, 0, 0, 0, 0, 0>> \o w
     \o [i \in 1..(Protocol1Size - 16) |-> 0] :
     w \in {<<0, 0, 0, 0>>, <<0, 0, 0, 18>>, <<0, 0, 255, 255>>,
            <<18, 52, 86, 120>>, <<255, 255, 255, 255>>}}

\* The byte strings handed to parse: every prefix of a header and a tail,
\* and the data frames.
ParseInputs ==
  {Slice(h \o t, 0, n) : h \in Headers, t \in Tails, n \in 0..MaxLen}
    \cup DataFrames \cup TunedFrames

MacAddresses ==
  {<<"0", "0", ":", "1", "c", ":", "c", "0", ":", "a", "2", ":", "2", "2", ":", "5", "d">>,
   <<"0", "0", ":", "1", "C", ":", "C", "0", ":", "A", "2", ":", "2", "2", ":", "5", "D">>,
   <<"A", "B", ":", "c", "d", ":", "E", "F", ":", "0", "9", ":", "9", "0", ":", "f", "f">>,
   <<"0", "0", ":", "0", "0", ":", "0", "0", ":", "0", "0", ":", "0", "0", ":", "0", "1">>,
   <<"0", "0", ":", "0", "0", ":", "0", "0", ":", "0", "0", ":", "0", "0", ":", "0", "0">>}

BoardIds == {0, 6, 255}

FirmwareVersions == {<<"1", ".", "0", ".", "0">>, <<"7", "2", ".", "3">>}

\* One call of parse, on bytes from the wire or on what
\* create_discovery_response produced for args.
ParseCall(args, data) ==
  /\ ph_stats.total_packets < MaxParses
  /\ ph_stats' = ParseStats(ph_stats, data)
  /\ last_parse' = [fn |-> "parse", args |-> args, data |-> data,
                    packet |-> ParsePacket(data), result |-> NoByte]
  /\ UNCHANGED <<now, configVars, resets, proxy, auth, activity_syncs, objs, tableVars, fwd_stats, session_stats,
                 listener_stats, sent, last_assign, last_dispatch, ready,
                 flusher, vtask, ttask, reaper, terminated>>

Parse(data) == ParseCall(<<>>, data)

CreateResponse(mac_address, board_id, firmware_version) ==
  /\ last_parse' =
       [fn |-> "create_discovery_response",
        args |-> <<mac_address, board_id, firmware_version>>,
        data |-> CreateDiscoveryResponse(mac_address, board_id, firmware_version),
        packet |-> HPSDRPacket(""), result |-> NoByte]
  /\ UNCHANGED <<now, configVars, resets, proxy, auth, activity_syncs, objs, tableVars, fwd_stats, session_stats,
                 ph_stats, listener_stats, sent, last_assign, last_dispatch,
                 ready, flusher, vtask, ttask, reaper, terminated>>

\* parse applied to the packet create_discovery_response returned.
ParseCreated ==
  /\ last_parse.fn = "create_discovery_response"
  /\ ParseCall(last_parse.args, last_parse.data)

\* extract_frequency applied to the packet parse returned.
ExtractFrequencyCall ==
  /\ last_parse.fn = "parse"
  /\ last_parse' = [last_parse EXCEPT !.fn = "extract_frequency",
                                      !.result = ExtractFrequency(last_parse.packet)]
  /\ UNCHANGED <<now, configVars, resets, proxy, auth, activity_syncs, objs, tableVars, fwd_stats, session_stats,
                 ph_stats, listener_stats, sent, last_assign, last_dispatch,
                 ready, flusher, vtask, ttask, reaper, terminated>>

NextParse ==
  \/ \E data \in ParseInputs : Parse(data)
  \/ ExtractFrequencyCall
  \/ \E mac \in MacAddresses, b \in BoardIds, fw \in FirmwareVersions :
       CreateResponse(mac, b, fw)
  \/ ParseCreated

\* ------------------------------------------------------ start and shutdown
lifeFrame ==
  <<now, configVars, resets, auth, activity_syncs, objs, tableVars, trafficVars, vtask, ttask,
    reaper, terminated>>

\* initialize(): the database is connected and healthy.
InitDatabase ==
  /\ proxy.pc = "init_db"
  /\ proxy' = [proxy EXCEPT !.pc = "init_sm", !.db = TRUE]
  /\ UNCHANGED lifeFrame

\* initialize(): session_manager.start() creates the cleanup task.
InitSessionManager ==
  /\ proxy.pc = "init_sm"
  /\ proxy' = [proxy EXCEPT !.pc = "init_listener", !.sm = TRUE]
  /\ UNCHANGED lifeFrame

\* initialize(): udp_listener.start() opens the socket; nothing suspends
\* from there to the loop of run(), so the packet forwarder is created and
\* started and _running is set in the same step. No check of self.radios
\* is made.
InitListener ==
  /\ proxy.pc = "init_listener"
  /\ proxy' = [proxy EXCEPT !.pc = "running", !.listener = TRUE, !.fwd = TRUE,
                            !.running = TRUE]
  /\ UNCHANGED lifeFrame

\* A step of initialize() raises (no database, address in use): run()
\* logs the error and goes to shutdown().
InitializeFails ==
  /\ proxy.pc \in {"init_db", "init_sm", "init_listener"}
  /\ proxy' = [proxy EXCEPT !.pc = "shutdown"]
  /\ UNCHANGED lifeFrame

\* signal_handler: SIGINT or SIGTERM delivered. _running is cleared when it
\* is set; nothing else is recorded.
SignalHandler ==
  /\ proxy.pc # "done"
  /\ proxy.signals < MaxSignals
  /\ proxy' = [proxy EXCEPT !.signals = @ + 1, !.running = FALSE]
  /\ UNCHANGED lifeFrame

\* run(): the loop "while self._running" finds the flag cleared.
MainLoopExit ==
  /\ proxy.pc = "running"
  /\ ~proxy.running
  /\ proxy' = [proxy EXCEPT !.pc = "shutdown"]
  /\ UNCHANGED lifeFrame

\* shutdown() up to its first await: _running is cleared and, if
\* initialize() got as far as creating it, packet_forwarder.stop() cancels
\* the statistics task and waits for it. No counter is saved on the way.
ShutdownBegin ==
  /\ proxy.pc = "shutdown"
  /\ proxy' = [proxy EXCEPT
                 !.pc = "stop_sm", !.running = FALSE, !.fwd = FALSE,
                 !.steps = IF proxy.fwd THEN Append(@, "packet_forwarder.stop") ELSE @]
  /\ flusher' = IF proxy.fwd THEN [flusher EXCEPT !.pc = "cancelled"]
                ELSE flusher
  /\ UNCHANGED <<now, configVars, resets, auth, activity_syncs, objs, tableVars, fwd_stats,
                 session_stats, ph_stats, listener_stats, sent, last_assign,
                 last_dispatch, ready, last_parse, vtask, ttask, reaper, terminated>>

\* shutdown(): session_manager.stop() cancels the cleanup task and waits
\* for it.
ShutdownSessionManager ==
  /\ proxy.pc = "stop_sm"
  /\ proxy' = [proxy EXCEPT
                 !.pc = "stop_listener", !.sm = FALSE,
                 !.steps = IF proxy.sm THEN Append(@, "session_manager.stop") ELSE @]
  /\ reaper' = IF proxy.sm THEN [reaper EXCEPT !.pc = "stopped"] ELSE reaper
  /\ UNCHANGED <<now, configVars, resets, auth, activity_syncs, objs, tableVars, trafficVars,
                 vtask, ttask, terminated>>

\* shutdown(): udp_listener.stop() closes the transport, then
\* db_manager.disconnect() disposes of the engine, and shutdown() returns.
ShutdownEnd ==
  /\ proxy.pc = "stop_listener"
  /\ proxy' = [proxy EXCEPT
                 !.pc = "done", !.listener = FALSE, !.db = FALSE,
                 !.steps = @ \o (IF proxy.listener THEN <<"udp_listener.stop">> ELSE <<>>)
                             \o (IF proxy.db THEN <<"db_manager.disconnect">> ELSE <<>>)]
  /\ UNCHANGED lifeFrame

LifecycleStep ==
  \/ InitDatabase
  \/ InitSessionManager
  \/ InitListener
  \/ MainLoopExit
  \/ ShutdownBegin
  \/ ShutdownSessionManager
  \/ ShutdownEnd

\* The proxy from construction to the end of shutdown(), with datagrams
\* arriving whenever the socket is open.
NextLifecycle ==
  \/ LifecycleStep
  \/ InitializeFails
  \/ SignalHandler
  \/ /\ proxy.pc # "done"
     /\ \E addr \in ClientAddrs, data \in {DiscoveryReq, DataPkt} :
          ReceiveDatagram(addr, data, TRUE)
  \/ /\ proxy.sm
     /\ proxy.pc # "done"
     /\ ValidateFlow({1}, {"t1"}, {MaxTtl})
  \/ FlushBegin
  \/ FlushRecordFinish

InitLifecycle ==
  /\ now = 0
  /\ allow_anonymous \in BOOLEAN
  /\ radios \in {<<>>, RadioConfig}
  /\ objs = <<>>
  /\ sessions_by_client = <<>>
  /\ sessions_by_token = [t \in Tokens |-> NoId]
  /\ sessions_by_id = {}
  /\ sm_stats = ZeroSmStats
  /\ fwd_stats = ZeroFwdStats
  /\ session_stats = <<>>
  /\ ph_stats = ZeroPhStats
  /\ listener_stats = ZeroListenerStats
  /\ sent = <<>>
  /\ vtask = [t \in ValTasks |-> IdleVTask]
  /\ ttask = IdleTTask
  /\ reaper = [pc |-> "sleep", queue |-> <<>>, cur |-> NoId,
               expired |-> <<>>, idle |-> <<>>]
  /\ terminated = {}
  /\ last_assign = <<>>
  /\ last_dispatch = NoDispatch
  /\ ready = <<>>
  /\ flusher = IdleFlusher
  /\ last_parse = NoParse
  /\ resets = 0
  /\ proxy = ConstructedProxy
  /\ auth = InitialAuth
  /\ activity_syncs = {}

\* One awaited call of AuthManager.authenticate, as test_auth makes them.
AuthenticateCall(username, password) ==
  /\ auth.calls < MaxAuthCalls
  /\ \E r \in {Authenticate(auth.user, now, username, password)} :
       auth' = [user |-> r.user,
                db_sessions |-> auth.db_sessions + r.sessions,
                tokens |-> auth.tokens + r.tokens,
                calls |-> auth.calls + 1,
                wrong_run |->
                  IF username # auth.user.username THEN auth.wrong_run
                  ELSE IF VerifyPassword(password, auth.user) THEN 0
                  ELSE auth.wrong_run + 1,
                last_auth |-> [username |-> username, password |-> password,
                               raised |-> r.raised, at |-> now]]
  /\ UNCHANGED <<now, configVars, resets, proxy, activity_syncs, objs, tableVars, trafficVars,
                 vtask, ttask, reaper, terminated>>

\* DatabaseManager.reset_failed_login called on the account from outside
\* authenticate (the clean-up of test_auth).
ResetFailedLoginCall ==
  /\ auth.user # ResetFailedLogin(auth.user)
  /\ auth' = [auth EXCEPT !.user = ResetFailedLogin(@), !.wrong_run = 0]
  /\ UNCHANGED <<now, configVars, resets, proxy, activity_syncs, objs, tableVars, trafficVars,
                 vtask, ttask, reaper, terminated>>

\* Logins against one account while the clock runs.
NextAuth ==
  \/ Tick
  \/ \E username \in Usernames, password \in Passwords :
       AuthenticateCall(username, password)
  \/ ResetFailedLoginCall

SpecAuth == Init /\ [][NextAuth]_vars

\* Sessions are created and left to the reaper alone.
NextReaper ==
  \/ TickReaper
  \/ ValidateFlow({1}, Tokens, {MaxTtl})
  \/ ReaperCollect
  \/ ReaperTerminateFinish
  \/ ReaperDbCleanup

InitTable == Init /\ allow_anonymous = FALSE

SpecReaper == InitTable /\ [][NextReaper]_vars

SpecBind == InitTable /\ [][NextBind]_vars

\* The reaper with a database whose calls can fail.
NextReaperError ==
  \/ NextReaper
  \/ ReaperTerminateError

SpecReaperError == InitTable /\ [][NextReaperError]_vars

SpecTable == InitTable /\ [][NextTable]_vars

SpecStop == InitTable /\ [][NextStop]_vars

SpecTouch == InitTable /\ [][NextTouch]_vars

SpecTerminate == InitTable /\ [][NextTerminate]_vars

SpecLoop == InitTable /\ [][NextLoop]_vars

SpecParse == Init /\ [][NextParse]_vars

SpecStats == Init /\ [][NextStats]_vars

\* The event loop runs every coroutine that can run: initialize(), the main
\* loop and shutdown() make progress. Signals and datagrams need not come.
SpecLifecycle ==
  InitLifecycle /\ [][NextLifecycle]_vars /\ WF_vars(LifecycleStep)

Spec == Init /\ [][NextDispatch]_vars


\* =============================================================== properties
\* A step that handles one received datagram; last_dispatch' describes it.
ReceivedStep == listener_stats'.packets_received = listener_stats.packets_received + 1

\* The radio endpoints a session can be bound to.
RadioEndpoints == {<<RadioIps[i][1], p>> : i \in 1..Len(RadioIps), p \in {1024, 1025}}

\* The session ids some lookup table holds.
IndexedIds ==
  (DictValues(sessions_by_client) \cup sessions_by_id
     \cup {sessions_by_token[t] : t \in Tokens}) \ {NoId}

\* The client endpoint has no stored session, or a stored one that expired.
NoLiveSession(addr) ==
  \/ ~DictHas(sessions_by_client, addr)
  \/ now > objs[DictGet(sessions_by_client, addr, NoId)].expires_at

\* C1: a datagram whose source IP is a key of radio_ips is not parsed; it is
\* handed to forward_to_client alone, with its source as the radio endpoint.
C1_RadioDatagramNotParsed ==
  [][(ReceivedStep /\ last_dispatch'.src[1] \in DictKeys(RadioIps))
       => /\ ph_stats' = ph_stats
          /\ last_dispatch'.calls =
               <<[fn |-> "forward_to_client", addr |-> last_dispatch'.src]>>]_vars

\* C1 witness: a datagram from a radio address was forwarded to a client.
C1_Witness ==
  /\ last_dispatch.src[1] \in DictKeys(RadioIps)
  /\ fwd_stats.packets_forwarded_to_client = 1
  /\ sent # <<>>
  /\ sent[Len(sent)].addr \in ClientAddrs

\* C2: no reader returns an expired stored session: get_client_for_radio
\* returns no client whose stored session has expired, and no datagram is
\* sent to the client endpoint of an expired session.
C2_ExpiredTreatedAbsent ==
  [][/\ \A r \in RadioEndpoints :
          LET c == GetClientForRadio(sessions_by_client', objs', r)
          IN c # NoAddr =>
               now' <= objs'[DictGet(sessions_by_client', c, NoId)].expires_at
     /\ (ReceivedStep /\ Len(sent') > Len(sent)
           /\ sent'[Len(sent')].addr \in ClientAddrs)
          => ~NoLiveSession(sent'[Len(sent')].addr)]_vars

\* C3: when a reaper tick has completed, no session that was expired when
\* the tick collected its victims is left in a lookup table.
C3_ReaperRemovesExpired ==
  reaper.pc = "sleep" =>
    \A i \in 1..Len(reaper.expired) : reaper.expired[i].sid \notin IndexedIds

\* C4: once terminate_session has completed for a session, no lookup returns
\* it: not by client, not by token, and get_client_for_radio does not return
\* its client on its behalf.
C4_TerminationAbsorbing ==
  \A sid \in terminated :
    /\ \A a \in ClientAddrs : GetSessionByClient(sessions_by_client, a) # sid
    /\ \A t \in Tokens : GetSessionByToken(sessions_by_token, t) # sid
    /\ \A r \in RadioEndpoints :
         LET i == RadioMatchIndex(sessions_by_client, objs, r)
         IN i # 0 => sessions_by_client[i][2] # sid

\* The stored sessions bound to radio endpoint r, by position.
Claimants(r) ==
  {i \in 1..Len(sessions_by_client) :
     objs[sessions_by_client[i][2]].radio_address = r}

C5_FirstStoredWinsIn(bc, os) ==
  \A r \in RadioEndpoints :
    LET c == GetClientForRadio(bc, os, r)
    IN c # NoAddr =>
         \E i \in 1..Len(bc) :
           /\ bc[i][1] = c
           /\ os[bc[i][2]].radio_address = r
           /\ \A j \in 1..(i - 1) : os[bc[j][2]].radio_address # r

C6_ClientEndpointUnique ==
  \A a \in ClientAddrs :
    (\A t \in ValTasks : vtask[t].pc = "insert" => vtask[t].addr # a)
      => Cardinality({sid \in IndexedIds : objs[sid].client_address = a}) <= 1

\* C7: in anonymous mode a Discovery datagram from a client without a
\* session leaves a session bound to the first radio's control endpoint, the
\* datagram sent there once, and the to-radio counters advanced.
C7_AnonymousDiscovery ==
  [][(/\ ReceivedStep
      /\ allow_anonymous
      /\ radios # <<>>
      /\ last_dispatch'.packet_type = "DISCOVERY"
      /\ last_dispatch'.send_ok
      /\ ~DictHas(sessions_by_client, last_dispatch'.src))
       => LET src == last_dispatch'.src
              data == last_dispatch'.data
              radio == <<ResolvedRadioIp(FirstRadio), FirstRadio.port>>
          IN /\ DictHas(sessions_by_client', src)
             /\ objs'[DictGet(sessions_by_client', src, NoId)].radio_address = radio
             /\ sent' = Append(sent, [data |-> data, addr |-> radio])
             /\ fwd_stats'.packets_forwarded_to_radio
                  = fwd_stats.packets_forwarded_to_radio + 1
             /\ fwd_stats'.bytes_forwarded_to_radio
                  = fwd_stats.bytes_forwarded_to_radio + Len(data)]_vars

\* C8: in anonymous mode a Data or Unknown datagram from a client without a
\* session leaves a session bound to the first radio's data port, a SetIP
\* datagram one bound to its control port, and the datagram is sent there.
C8_AnonymousBinding ==
  [][(/\ ReceivedStep
      /\ allow_anonymous
      /\ radios # <<>>
      /\ last_dispatch'.packet_type \in {"DATA", "UNKNOWN", "SET_IP"}
      /\ last_dispatch'.send_ok
      /\ ~DictHas(sessions_by_client, last_dispatch'.src))
       => LET src == last_dispatch'.src
              data == last_dispatch'.data
              port == IF last_dispatch'.packet_type = "SET_IP"
                        THEN FirstRadio.port ELSE GetDataPort(FirstRadio)
              radio == <<ResolvedRadioIp(FirstRadio), port>>
          IN /\ DictHas(sessions_by_client', src)
             /\ objs'[DictGet(sessions_by_client', src, NoId)].radio_address = radio
             /\ sent' = Append(sent, [data |-> data, addr |-> radio])]_vars

C10_UnknownAsData ==
  [][(ReceivedStep /\ last_dispatch'.packet_type = "UNKNOWN")
       => LET src == last_dispatch'.src
              data == last_dispatch'.data
              h == HandleData(HandlerState, src, data, last_dispatch'.send_ok)
              id == DictGet(sessions_by_client, src, NoId)
          IN /\ objs' = h.objs
             /\ sent' = h.sent
             /\ UNCHANGED tableVars
             /\ (/\ ~NoLiveSession(src)
                 /\ objs[id].radio_address # NoAddr
                 /\ last_dispatch'.send_ok)
                  => sent' = Append(sent, [data |-> data,
                                           addr |-> objs[id].radio_address])]_vars

\* C10 witness: an Unknown datagram reached the radio of its sender's session.
C10_Witness ==
  /\ last_dispatch.packet_type = "UNKNOWN"
  /\ sent # <<>>
  /\ sent[Len(sent)].data = last_dispatch.data
  /\ sent[Len(sent)].addr \in RadioEndpoints
  /\ fwd_stats.packets_forwarded_to_radio >= 1
  /\ \E i \in 1..Len(sessions_by_client) :
       /\ sessions_by_client[i][1] = last_dispatch.src
       /\ objs[sessions_by_client[i][2]].radio_address = sent[Len(sent)].addr

SendReached ==
  LET src == last_dispatch'.src
  IN IF src[1] \in DictKeys(RadioIps)
       THEN \E i \in 1..Len(sessions_by_client) :
              objs[sessions_by_client[i][2]].radio_address = src
       ELSE /\ ~NoLiveSession(src)
            /\ objs'[DictGet(sessions_by_client, src, NoId)].radio_address # NoAddr

\* C12: when send_to raises in forward_to_radio or forward_to_client, errors
\* grows by one, the forwarded packet and byte counters and the output are
\* unchanged, no exception leaves the handler, and no session is removed or
\* loses its radio.
C12_SendFailureKeepsSession ==
  [][(ReceivedStep /\ ~last_dispatch'.send_ok /\ SendReached)
       => /\ fwd_stats' = [fwd_stats EXCEPT !.errors = @ + 1]
          /\ sent' = sent
          /\ session_stats' = session_stats
          /\ ~last_dispatch'.raised
          /\ UNCHANGED tableVars
          /\ Len(objs') = Len(objs)
          /\ \A id \in 1..Len(objs) :
               IF last_dispatch'.packet_type = "DISCOVERY"
                 THEN objs[id].radio_address # NoAddr
                        => objs'[id].radio_address # NoAddr
                 ELSE objs'[id] = objs[id]]_vars

\* C12 witness: a send failed and was counted, and the session whose
\* datagram it was is still stored and bound to its radio.
C12_Witness ==
  /\ ~last_dispatch.send_ok
  /\ fwd_stats.errors = 1
  /\ \E i \in 1..Len(sessions_by_client) :
       LET s == objs[sessions_by_client[i][2]]
       IN /\ s.radio_address # NoAddr
          /\ last_dispatch.src \in {s.client_address, s.radio_address}
          /\ s.session_id \in sessions_by_id

\* C13: whatever the proxy sends in a step that handles a datagram is the
\* received byte string, unchanged, in either direction; at most one send.
C13_WireTransparency ==
  [][ReceivedStep
       => \/ sent' = sent
          \/ /\ Len(sent') = Len(sent) + 1
             /\ SubSeq(sent', 1, Len(sent)) = sent
             /\ sent'[Len(sent')].data = last_dispatch'.data]_vars

\* C13 witness: a discovery response from the radio, long enough for the
\* rewrite to change it, was sent to a client as received.
C13_Witness ==
  /\ last_dispatch.data = DiscoveryResp
  /\ last_dispatch.src[1] \in DictKeys(RadioIps)
  /\ sent # <<>>
  /\ sent[Len(sent)] \in [data : {DiscoveryResp}, addr : ClientAddrs]
  /\ RewriteDiscoveryResponse(DiscoveryResp) # DiscoveryResp

C14_IdleReaped ==
  /\ [](reaper.pc = "sleep" =>
          \A i \in 1..Len(reaper.idle) :
            /\ reaper.idle[i].reason = "timeout"
            /\ reaper.idle[i].sid \notin IndexedIds)
  /\ [][reaper' # reaper
          => \A sid \in sessions_by_id \ sessions_by_id' :
               \E i \in 1..Len(reaper'.idle) : reaper'.idle[i].sid = sid]_vars

\* A step in which parse returns; last_parse' holds its input and its result.
ParseStep == ph_stats'.total_packets = ph_stats.total_packets + 1

\* Text that reads back, as four dot-separated decimal numbers without
\* leading zeros, to the four bytes.
IsDottedFormOf(text, bytes) ==
  LET parts == Split(text, ".")
  IN /\ Len(parts) = Len(bytes)
     /\ \A i \in 1..Len(parts) :
          /\ Len(parts[i]) >= 1
          /\ \A j \in 1..Len(parts[i]) : \E d \in 1..10 : HexDigits[d] = parts[i][j]
          /\ Len(parts[i]) > 1 => parts[i][1] # "0"
          /\ IntOf(parts[i]) = bytes[i]

\* C16: parse classifies every byte string by the fixed rule (SET_IP on
\* EF FE 04 with three bytes or more, else DISCOVERY on EF FE 02 with three or
\* more, else DATA on EF FE 01 with eight or more, else UNKNOWN), never
\* raises, and a SET_IP packet carries the dotted form of bytes 4..7 as its
\* target IP exactly when the datagram has eight bytes or more.
C16_ClassificationTotal ==
  [][ParseStep =>
       LET data == last_parse'.data
           packet == last_parse'.packet
           prefix(c) == Len(data) >= 3 /\ data[1] = 239 /\ data[2] = 254 /\ data[3] = c
       IN /\ ~packet.raised
          /\ packet.packet_type \in {"SET_IP", "DISCOVERY", "DATA", "UNKNOWN"}
          /\ packet.packet_type = "SET_IP" <=> prefix(4)
          /\ packet.packet_type = "DISCOVERY" <=> prefix(2)
          /\ packet.packet_type = "DATA" <=> (prefix(1) /\ Len(data) >= 8)
          /\ packet.packet_type = "SET_IP" =>
               /\ (packet.target_ip # None) <=> (Len(data) >= 8)
               /\ Len(data) >= 8 =>
                    IsDottedFormOf(packet.target_ip, SubSeq(data, 5, 8))]_vars

\* A SET_IP datagram with the address 10.0.0.5 has been parsed.
C16_Witness ==
  /\ last_parse.fn = "parse"
  /\ last_parse.packet.packet_type = "SET_IP"
  /\ last_parse.packet.target_ip = <<"1", "0", ".", "0", ".", "0", ".", "5">>

\* Text of six colon-separated pairs of lower-case hexadecimal digits whose
\* values are the six bytes.
IsLowerHexOf(text, bytes) ==
  /\ Len(text) = 3 * Len(bytes) - 1
  /\ \A i \in 1..Len(bytes) :
       /\ \E h \in 1..16, l \in 1..16 :
            /\ text[3 * i - 2] = HexDigits[h]
            /\ text[3 * i - 1] = HexDigits[l]
            /\ bytes[i] = (h - 1) * 16 + (l - 1)
       /\ i < Len(bytes) => text[3 * i] = ":"

\* C17: a Discovery datagram is a response, with the lower-case
\* colon-separated hex of bytes 3..8 as its MAC, exactly when it holds those
\* six bytes and one of them is not zero; otherwise it is a request without a
\* MAC. A response carries byte 9 as its board id when that byte is there.
C17_DiscoveryRole ==
  [][(ParseStep /\ last_parse'.packet.packet_type = "DISCOVERY") =>
       LET data == last_parse'.data
           packet == last_parse'.packet
           nonzero == Len(data) >= 9 /\ \E i \in 4..9 : data[i] # 0
       IN /\ packet.is_response <=> nonzero
          /\ nonzero => IsLowerHexOf(packet.mac_address, SubSeq(data, 4, 9))
          /\ ~nonzero => packet.mac_address = None
          /\ (nonzero /\ Len(data) >= 10) => packet.board_id = data[10]]_vars

\* A response whose MAC needs a padded and a lettered digit has been parsed.
C17_Witness ==
  /\ last_parse.fn = "parse"
  /\ last_parse.packet.is_response
  /\ last_parse.packet.mac_address
       = <<"0", "0", ":", "0", "0", ":", "0", "0", ":", "0", "0", ":", "0", "0", ":", "a", "b">>
  /\ last_parse.packet.board_id = 255

\* str.lower() of a MAC address.
Lowered(text) ==
  [i \in 1..Len(text) |->
     IF \E d \in 11..16 : HexDigitsUpper[d] = text[i]
       THEN HexDigits[CHOOSE d \in 11..16 : HexDigitsUpper[d] = text[i]]
       ELSE text[i]]

\* The parse of a created discovery response gives back what was put in.
RoundTrips ==
  /\ last_parse'.packet.packet_type = "DISCOVERY"
  /\ last_parse'.packet.is_response
  /\ last_parse'.packet.mac_address = Lowered(last_parse'.args[1])
  /\ last_parse'.packet.board_id = last_parse'.args[2]

NonDecreasing(old, new) == \A f \in DOMAIN old : new[f] >= old[f]

\* The counters kept per object: classifier, listener, forwarder, and the
\* three cumulative counters of the session table.
GlobalCountersNonDecreasing ==
  /\ NonDecreasing(ph_stats, ph_stats')
  /\ NonDecreasing(listener_stats, listener_stats')
  /\ NonDecreasing(fwd_stats, fwd_stats')
  /\ sm_stats'.total_sessions >= sm_stats.total_sessions
  /\ sm_stats'.expired_sessions >= sm_stats.expired_sessions
  /\ sm_stats'.timeouts >= sm_stats.timeouts

\* The packet and byte counters of every session that keeps its entry.
SessionCountersNonDecreasing ==
  \A id \in DictKeys(session_stats) \cap DictKeys(session_stats') :
    NonDecreasing(DictGet(session_stats, id, ZeroSessionStats),
                  DictGet(session_stats', id, ZeroSessionStats))

\* C19: in a step that is not a reset_statistics call no observable counter
\* decreases: classifier, listener, forwarder, per-session and session-table
\* counters alike.
C19_CountersMonotonic ==
  [][resets' = resets =>
       (GlobalCountersNonDecreasing /\ SessionCountersNonDecreasing)]_vars

\* C20: every session the table holds has
\* created_at <= last_activity <= expires_at and last_activity <= now.
C20_TimestampOrder ==
  \A sid \in IndexedIds :
    /\ objs[sid].created_at <= objs[sid].last_activity
    /\ objs[sid].last_activity <= objs[sid].expires_at
    /\ objs[sid].last_activity <= now

\* C21: terminate_session run twice for a client endpoint leaves the table
\* and the statistics that one run leaves, and the second run invokes no
\* database hook; so does a call made once an earlier call for the endpoint
\* has returned.
C21_TerminateIdempotent ==
  /\ [](\A addr \in ClientAddrs :
          LET once == TerminateSession(Table, addr)
              twice == TerminateSession(once.table, addr)
          IN twice.table = once.table /\ twice.hooks = <<>>)
  /\ [][(ttask.pc = "wait" /\ ttask'.pc = "idle") =>
          \E a \in {objs[ttask.sid].client_address} :
            (TerminateSession(Table, a) = [table |-> Table, hooks |-> <<>>])']_vars

\* A live session has been terminated and its client has no entry left.
C21_Witness ==
  /\ ttask.pc = "idle"
  /\ \E sid \in terminated :
       /\ ~IsExpired(objs[sid])
       /\ sid \notin IndexedIds
       /\ ~DictHas(sessions_by_client, objs[sid].client_address)
       /\ sm_stats.total_sessions > sm_stats.active_sessions

C23_SignalShutsDown == (proxy.signals > 0) ~> (proxy.pc = "done")

\* C24: with no enabled radio in the configuration the proxy never reaches
\* its running state and never accepts or dispatches a datagram.
C24_NoRadiosIsFatal ==
  radios = <<>> =>
    /\ proxy.pc # "running"
    /\ ~proxy.running
    /\ listener_stats.packets_received = 0
    /\ last_dispatch = NoDispatch

\* C25: once max_login_attempts consecutive calls of authenticate with a
\* wrong password have been made for an existing enabled account the
\* account is locked, and a call made while the account is locked, the
\* right password included, raises AccountLockedError, generates no token
\* and creates no session row.
C25_AccountLockout ==
  [][(auth'.calls # auth.calls /\ auth'.last_auth.username = auth.user.username)
       => /\ auth'.wrong_run >= MaxLoginAttempts => IsLocked(auth'.user, now')
          /\ IsLocked(auth.user, now)
               => /\ auth'.last_auth.raised = "AccountLockedError"
                  /\ auth'.tokens = auth.tokens
                  /\ auth'.db_sessions = auth.db_sessions]_vars

C25_Witness ==
  /\ auth.wrong_run = 0
  /\ auth.user.failed_login_attempts = MaxLoginAttempts
  /\ IsLocked(auth.user, now)
  /\ auth.last_auth.password = "right"
  /\ auth.last_auth.raised = "AccountLockedError"
  /\ auth.tokens = 0

\* A step that handles a client's DATA, SET_IP or UNKNOWN datagram, each of
\* which is handed to forward_to_radio when the client has a live session.
ForwardToRadioStep ==
  /\ ReceivedStep
  /\ last_dispatch'.packet_type \in {"DATA", "SET_IP", "UNKNOWN"}
  /\ ~NoLiveSession(last_dispatch'.src)

\* C26: forward_to_radio for a client with a live session and an assigned
\* radio, the send succeeding, sends the bytes once to session.radio_address,
\* adds 1 to packets_forwarded_to_radio and to the session's packets_sent,
\* len(data) to bytes_forwarded_to_radio and to the session's bytes_sent,
\* sets the session's last_activity to now, returns True, and leaves the drop
\* and error counters as they were.
C26_ForwardAccounting ==
  [][(/\ ForwardToRadioStep
      /\ last_dispatch'.send_ok
      /\ objs[DictGet(sessions_by_client, last_dispatch'.src, NoId)].radio_address # NoAddr)
       => \E id \in {DictGet(sessions_by_client, last_dispatch'.src, NoId)} :
            /\ sent' = Append(sent, [data |-> last_dispatch'.data,
                                     addr |-> objs[id].radio_address])
            /\ fwd_stats' = [fwd_stats EXCEPT
                               !.packets_forwarded_to_radio = @ + 1,
                               !.bytes_forwarded_to_radio = @ + Len(last_dispatch'.data)]
            /\ DictGet(session_stats', id, ZeroSessionStats) =
                 [DictGet(session_stats, id, ZeroSessionStats) EXCEPT
                    !.packets_sent = @ + 1,
                    !.bytes_sent = @ + Len(last_dispatch'.data)]
            /\ DictHas(session_stats', id)
            /\ objs'[id].last_activity = now
            /\ last_dispatch'.returned = "True"]_vars

\* A DATA datagram of a client was forwarded to the radio of its session and
\* counted, for the forwarder and for the session.
C26_Witness ==
  /\ last_dispatch.packet_type = "DATA"
  /\ last_dispatch.returned = "True"
  /\ fwd_stats.packets_forwarded_to_radio = 1
  /\ fwd_stats.bytes_forwarded_to_radio = Len(DataPkt)
  /\ \E id \in sessions_by_id :
       /\ objs[id].client_address = last_dispatch.src
       /\ DictGet(session_stats, id, ZeroSessionStats).bytes_sent = Len(DataPkt)
       /\ sent = <<[data |-> DataPkt, addr |-> objs[id].radio_address]>>

\* C27: forward_to_radio for a client whose live session has no radio adds 1
\* to dropped_no_radio, returns False, sends nothing, and changes no other
\* counter, no session object and no entry of the session table.
C27_NoRadioDrop ==
  [][(/\ ForwardToRadioStep
      /\ objs[DictGet(sessions_by_client, last_dispatch'.src, NoId)].radio_address = NoAddr)
       => /\ fwd_stats' = [fwd_stats EXCEPT !.dropped_no_radio = @ + 1]
          /\ last_dispatch'.returned = "False"
          /\ sent' = sent
          /\ session_stats' = session_stats
          /\ objs' = objs
          /\ UNCHANGED tableVars]_vars

\* A client with a live session that was never bound to a radio sent a DATA
\* datagram after the session's creation, and it was dropped.
C27_Witness ==
  /\ last_dispatch.packet_type = "DATA"
  /\ last_dispatch.returned = "False"
  /\ fwd_stats.dropped_no_radio = 1
  /\ ~NoLiveSession(last_dispatch.src)
  /\ \E id \in {DictGet(sessions_by_client, last_dispatch.src, NoId)} :
       /\ objs[id].radio_address = NoAddr
       /\ objs[id].last_activity < now

\* C28: when the reaper task has exited after SessionManager.stop(), the tick
\* that was in progress has been completed: no victim it collected is left
\* waiting to be terminated (cleanup_expired_sessions is called after the
\* last of them).
C28_CancelledTickCompletes == reaper.pc = "stopped" => reaper.queue = <<>>

\* The proxy has released the database in shutdown().
DatabaseReleased ==
  \E i \in 1..Len(proxy.steps) : proxy.steps[i] = "db_manager.disconnect"

\* C29: shutdown() stops accepting datagrams before it cancels the reaper
\* and the statistics task, so that no datagram is handed to a handler once
\* either is cancelled; and the per-session counters accumulated since the
\* last periodic flush have been recorded when the database is released.
C29_ShutdownOrder ==
  /\ [](DatabaseReleased =>
          \A i \in 1..Len(session_stats) : session_stats[i][2] = ZeroSessionStats)
  /\ [][ReceivedStep => (flusher.pc # "cancelled" /\ reaper.pc # "stopped")]_vars

\* C30: for every datagram parse classifies as Data the sequence number is
\* the big-endian uint32 of bytes 3..6, and from 16 bytes on the control
\* bytes C0..C4 are bytes 11..15, ptt is bit 0 of C0 and freq_change bit 1.
C30_DataFields ==
  [][(ParseStep /\ last_parse'.packet.packet_type = "DATA")
       => LET data == last_parse'.data
              packet == last_parse'.packet
          IN /\ packet.sequence_number =
                  data[4] * 16777216 + data[5] * 65536 + data[6] * 256 + data[7]
             /\ Len(data) >= 16 =>
                  /\ packet.command_bytes = SubSeq(data, 12, 16)
                  /\ DictHas(packet.metadata, "ptt")
                  /\ DictGet(packet.metadata, "ptt", FALSE) = (data[12] % 2 = 1)
                  /\ DictHas(packet.metadata, "freq_change")
                  /\ DictGet(packet.metadata, "freq_change", FALSE)
                       = ((data[12] \div 2) % 2 = 1)]_vars

\* C31: extract_frequency on a Data packet with five control bytes returns
\* the integer nearest to freq_word * 1875 / 65536, freq_word being the
\* big-endian uint32 of C1..C4; on any other packet it returns None.
C31_FrequencyRounded ==
  [][(last_parse'.fn = "extract_frequency" /\ last_parse.fn = "parse")
       => LET packet == last_parse.packet
              data == last_parse.data
          IN IF packet.packet_type = "DATA" /\ Len(packet.command_bytes) = 5
               THEN \E hz \in {last_parse'.result} :
                      LET hi == data[13] * 256 + data[14]
                          lo == data[15] * 256 + data[16]
                          \* twice the distance of hz from the quotient, in 65536ths
                          off == 2 * ((hz - hi * 1875) * 65536 - lo * 1875)
                      IN off <= 65536 /\ 0 - off <= 65536
               ELSE last_parse'.result = NoByte]_vars

\* The time of the last write of the session's activity to the database:
\* its creation, or the latest db.update_session_activity call for it.
LastPersisted(os, syncs, id) ==
  LET times == {os[id].created_at} \cup {c.at : c \in {d \in syncs : d.sid = id}}
  IN CHOOSE t \in times : \A u \in times : u <= t

\* C32: when forward_to_radio touches a live session that was last touched
\* within the threshold, the activity the database holds for it is at most
\* the threshold old afterwards: a session touched all along is synced about
\* once per threshold.
C32_ActivitySynced ==
  [][(/\ ForwardToRadioStep
      /\ last_dispatch'.returned = "True"
      /\ now - objs[DictGet(sessions_by_client, last_dispatch'.src, NoId)].last_activity
           <= SyncThreshold)
       => \E id \in {DictGet(sessions_by_client, last_dispatch'.src, NoId)} :
            now - LastPersisted(objs', activity_syncs', id) <= SyncThreshold]_vars

\* C33: the three lookup tables index the same sessions, and active_sessions
\* is the number of entries of sessions_by_client.
C33_IndexConsistency ==
  /\ DictValues(sessions_by_client) = sessions_by_id
  /\ {sessions_by_token[t] : t \in Tokens} \ {NoId} = sessions_by_id
  /\ sm_stats.active_sessions = Len(sessions_by_client)

\* C34: the session a terminate_session call of the reaper finds at a
\* victim's endpoint, and goes on to remove, is expired or idle when the call
\* is made; one that was touched, or created for that endpoint, after the
\* tick collected its victims is left alone.
C34_ReaperSparesActive ==
  [][(reaper' # reaper /\ reaper'.pc = "term_wait")
       => \E s \in {objs[reaper'.cur]} :
            IsExpired(s) \/ IsIdle(s, SessionTimeout)]_vars

\* C35: no forwarded packet is lost from the per-session statistics: in
\* every step of the statistics flush, for every session with an entry, the
\* counters left in memory plus the counters db.record_statistics stored in
\* that step make up the counters that were in memory before it.
FlushRecorded(sid) ==
  IF /\ flusher.pc = "record"
     /\ Head(flusher.queue) = sid
     /\ session_stats' # session_stats
    THEN flusher.args
    ELSE ZeroSessionStats

C35_NoStatisticsLost ==
  [][flusher' # flusher
       => \A sid \in DictKeys(session_stats) :
            \E before \in {DictGet(session_stats, sid, ZeroSessionStats)},
               after \in {DictGet(session_stats', sid, ZeroSessionStats)},
               rec \in {FlushRecorded(sid)} :
              /\ after.packets_sent + rec.packets_sent = before.packets_sent
              /\ after.bytes_sent + rec.bytes_sent = before.bytes_sent
              /\ after.packets_received + rec.packets_received
                   = before.packets_received
              /\ after.bytes_received + rec.bytes_received
                   = before.bytes_received]_vars

\* C36: the counters of the session table count real removals: in every
\* step of the reaper, expired_sessions grows by the number of sessions the
\* step removed as expired victims and timeouts by the number it removed as
\* idle victims; a terminate_session call that removed nothing counts nothing.
RemovedAs(reason) ==
  IF reaper.pc = "term_wait" /\ Head(reaper.queue).reason = reason
    THEN Cardinality(sessions_by_id \ sessions_by_id')
    ELSE 0

C36_CountersCountRemovals ==
  [][reaper' # reaper
       => /\ sm_stats'.expired_sessions - sm_stats.expired_sessions
               = RemovedAs("expired")
          /\ sm_stats'.timeouts - sm_stats.timeouts = RemovedAs("timeout")]_vars

C38_ReaperErrorIsolated ==
  [][(reaper.pc # "sleep" /\ reaper'.pc = "sleep")
       => reaper.pc = "db_cleanup" /\ reaper.queue = <<>>]_vars

====
